---- MODULE Spec2Model ----
(***************************************************************************)
(* KetherServerDaemon: the map installation pipeline, the watcher          *)
(* detection, the uninstall path and the SQLite registry, as state         *)
(* machines translated from src/map_installer/service.rs,                  *)
(* src/registry/sqlite.rs, src/utils/path_sanitizer.rs and the downloaders.*)
(*                                                                         *)
(* Text is a sequence of one-character strings, so that the sanitizers     *)
(* filter, lowercase, trim and split it as the code does.                  *)
(***************************************************************************)
EXTENDS Integers, Sequences, FiniteSets, TLC

(***************************************************************************)
(* Bounds of the model.                                                    *)
(***************************************************************************)
\* Uuid::new_v4() calls a behaviour may make (each yields a fresh value).
MaxUuid == 4
\* Ids the direct callers of the registry choose among.
MaxRows == 2

(***************************************************************************)
(* Program constants.                                                      *)
(***************************************************************************)
MaxNameLen == 255
max_retries == 3

\* Option<T>: None is the empty sequence, Some(x) the one-element sequence
None == <<>>
Some(x) == <<x>>
IsSome(o) == o # <<>>
Unwrap(o) == o[1]

(***************************************************************************)
(* Characters and text helpers.                                            *)
(***************************************************************************)
UpperChars == {"A", "M", "V", "P", "K", "U"}
LowerChars == {"a", "b", "c", "d", "e", "f", "g", "h", "i", "j", "k", "l", "m", "n",
               "o", "p", "q", "r", "s", "t", "u", "v", "w", "x", "y", "z"}
DigitChars == {"0", "1", "2", "3", "4", "5", "6", "7", "8", "9"}
SpaceChars == {" "}

\* char::is_alphanumeric
IsAlphanumeric(c) == c \in UpperChars \cup LowerChars \cup DigitChars

\* char::to_lowercase on the letters of the model's alphabet
LowerOf(c) ==
    CASE c = "A" -> "a"
      [] c = "M" -> "m"
      [] c = "V" -> "v"
      [] c = "P" -> "p"
      [] c = "K" -> "k"
      [] c = "U" -> "u"
      [] OTHER -> c

\* str::to_lowercase
ToLower(s) == [i \in 1..Len(s) |-> LowerOf(s[i])]

RECURSIVE TrimStart(_)
TrimStart(s) ==
    IF s # <<>> /\ Head(s) \in SpaceChars THEN TrimStart(Tail(s)) ELSE s

RECURSIVE TrimEnd(_)
TrimEnd(s) ==
    IF s # <<>> /\ s[Len(s)] \in SpaceChars
    THEN TrimEnd(SubSeq(s, 1, Len(s) - 1))
    ELSE s

\* str::trim
Trim(s) == TrimEnd(TrimStart(s))

\* str::replace(' ', "_")
ReplaceSpaces(s) == [i \in 1..Len(s) |-> IF s[i] = " " THEN "_" ELSE s[i]]

\* str::ends_with
EndsWith(s, suffix) ==
    /\ Len(s) >= Len(suffix)
    /\ SubSeq(s, Len(s) - Len(suffix) + 1, Len(s)) = suffix

\* str::starts_with
StartsWith(s, prefix) ==
    /\ Len(s) >= Len(prefix)
    /\ SubSeq(s, 1, Len(prefix)) = prefix

DotVpk == <<".", "v", "p", "k">>
DotZip == <<".", "z", "i", "p">>
Unknown == <<"U", "n", "k", "n", "o", "w", "n">>

\* str::split('/'): the segments between separators, empty ones included
RECURSIVE SplitOn(_, _, _)
SplitOn(s, sep, cur) ==
    IF s = <<>> THEN <<cur>>
    ELSE IF Head(s) = sep THEN <<cur>> \o SplitOn(Tail(s), sep, <<>>)
    ELSE SplitOn(Tail(s), sep, Append(cur, Head(s)))

Split(s, sep) == SplitOn(s, sep, <<>>)

\* Path::components without the root: empty and "." segments are dropped,
\* ".." stays as Component::ParentDir
ParentDir == <<".", ".">>
CurDir == <<".">>
Components(p) == SelectSeq(Split(p, "/"), LAMBDA seg : seg # <<>> /\ seg # CurDir)

\* Path::is_absolute
IsAbsolute(p) == p # <<>> /\ Head(p) = "/"

\* Path::file_name: the last component when it is a normal one
FileName(p) ==
    LET cs == Components(p)
    IN IF cs = <<>> \/ cs[Len(cs)] = ParentDir THEN None ELSE Some(cs[Len(cs)])

\* Path::extension: the part after the last dot of the file name, when the
\* file name has a dot that is not its first character
RECURSIVE LastDot(_, _)
LastDot(s, i) == IF i = 0 THEN 0 ELSE IF s[i] = "." THEN i ELSE LastDot(s, i - 1)

Extension(p) ==
    LET fo == FileName(p)
    IN IF fo = None THEN None
       ELSE LET f == Unwrap(fo)
                d == LastDot(f, Len(f))
            IN IF d <= 1 THEN None ELSE Some(SubSeq(f, d + 1, Len(f)))

RECURSIVE JoinWith(_, _)
JoinWith(segs, sep) ==
    IF segs = <<>> THEN <<>>
    ELSE IF Len(segs) = 1 THEN segs[1]
    ELSE segs[1] \o <<sep>> \o JoinWith(Tail(segs), sep)

(***************************************************************************)
(* src/utils/path_sanitizer.rs                                             *)
(***************************************************************************)
IsMapNameChar(c) == IsAlphanumeric(c) \/ c = "-" \/ c = "_" \/ c = " "

\* sanitize_map_name: [ok, v]
sanitize_map_name(name) ==
    LET sanitized == SelectSeq(name, IsMapNameChar)
        normalized == ReplaceSpaces(Trim(ToLower(sanitized)))
    IN IF normalized = <<>> THEN [ok |-> FALSE, v |-> <<>>]
       ELSE IF Len(normalized) > MaxNameLen THEN [ok |-> FALSE, v |-> <<>>]
       ELSE IF Head(normalized) = "." \/ Head(normalized) = "-"
            THEN [ok |-> FALSE, v |-> <<>>]
       ELSE [ok |-> TRUE, v |-> normalized]

IsFilenameChar(c) == IsAlphanumeric(c) \/ c = "-" \/ c = "_" \/ c = "." \/ c = " "

\* sanitize_filename
sanitize_filename(filename) ==
    LET fname == FileName(filename)
        filename_only == IF fname = None THEN filename ELSE Unwrap(fname)
    IN Trim(SelectSeq(filename_only, IsFilenameChar))

(***************************************************************************)
(* File contents.  A file is a VPK (with or without a readable             *)
(* addoninfo.txt), a ZIP with its entries, or something else.              *)
(***************************************************************************)
\* A VPK v1 whose addoninfo.txt holds the given optional keys
Vpk(title, version) ==
    [t |-> "vpk", title |-> title, version |-> version, entries |-> <<>>]
\* A ZIP archive; an entry is [name |-> path text, data |-> content]
Zip(entries) == [t |-> "zip", title |-> None, version |-> None, entries |-> entries]
\* Bytes that are neither: not a VPK v1, or a VPK without addoninfo.txt
Junk == [t |-> "junk", title |-> None, version |-> None, entries |-> <<>>]
\* What an interrupted copy leaves at its destination
Partial == [t |-> "partial", title |-> None, version |-> None, entries |-> <<>>]

\* src/extractor/vpk.rs extract_vpk_metadata: [ok, title, version]
extract_vpk_metadata(content) ==
    IF content.t # "vpk"
    THEN [ok |-> FALSE, title |-> <<>>, version |-> <<>>]
    ELSE [ok |-> TRUE,
          title |-> IF IsSome(content.title) THEN Unwrap(content.title) ELSE Unknown,
          version |-> IF IsSome(content.version) THEN Unwrap(content.version) ELSE Unknown]

\* src/utils/checksum.rs calculate_file_md5: the digest of the bytes read,
\* formatted as lowercase hex; distinct contents of the model give distinct digests
calculate_file_md5(content) == [md5hex |-> content]

(***************************************************************************)
(* src/registry/sqlite.rs: the maps table is a function from the primary   *)
(* key (id TEXT PRIMARY KEY) to the stored columns.                        *)
(***************************************************************************)
\* SourceKind -> the source_kind column
SourceKindStr(kind) == IF kind = "Workshop" THEN "workshop" ELSE "other"

\* a variant of RowOfEntry that binds NULL for the version column
RowOfEntryUnversioned(entry) ==
    [name |-> entry.name,
     source_url |-> entry.source_url,
     source_kind |-> SourceKindStr(entry.source_kind),
     workshop_id |-> IF entry.source_kind = "Workshop" THEN entry.workshop_id ELSE None,
     installed_path |-> entry.installed_path,
     version |-> None,
     checksum |-> entry.checksum,
     checksum_kind |-> entry.checksum_kind]

\* the columns add_map and update_map bind for an entry
RowOfEntry(entry) ==
    [name |-> entry.name,
     source_url |-> entry.source_url,
     source_kind |-> SourceKindStr(entry.source_kind),
     workshop_id |-> IF entry.source_kind = "Workshop" THEN entry.workshop_id ELSE None,
     installed_path |-> entry.installed_path,
     version |-> entry.version,
     checksum |-> entry.checksum,
     checksum_kind |-> entry.checksum_kind]

\* a variant of map_entry_from_row that returns the stored workshop_id column
\* whatever the source_kind
map_entry_from_row_unclamped(id, row) ==
    [id |-> id,
     name |-> row.name,
     source_url |-> row.source_url,
     source_kind |-> IF row.source_kind = "workshop" THEN "Workshop" ELSE "Other",
     workshop_id |-> row.workshop_id,
     installed_path |-> row.installed_path,
     version |-> row.version,
     checksum |-> row.checksum,
     checksum_kind |-> row.checksum_kind]

\* map_entry_from_row
map_entry_from_row(id, row) ==
    LET source_kind == IF row.source_kind = "workshop" THEN "Workshop" ELSE "Other"
    IN [id |-> id,
        name |-> row.name,
        source_url |-> row.source_url,
        source_kind |-> source_kind,
        workshop_id |-> IF source_kind = "Workshop" THEN row.workshop_id ELSE None,
        installed_path |-> row.installed_path,
        version |-> row.version,
        checksum |-> row.checksum,
        checksum_kind |-> row.checksum_kind]

\* add_map: INSERT; fails on a duplicate primary key or a database error
add_map(reg, entry, dbError) ==
    IF dbError \/ entry.id \in DOMAIN reg
    THEN [ok |-> FALSE, registry |-> reg]
    ELSE [ok |-> TRUE,
          registry |-> [i \in DOMAIN reg \cup {entry.id} |->
                            IF i = entry.id THEN RowOfEntry(entry) ELSE reg[i]]]

\* a variant of remove_map that deletes nothing
remove_map_kept(reg, id) == reg

\* remove_map: DELETE ... WHERE id = ?1; no row affected is not an error
remove_map(reg, id) == [i \in DOMAIN reg \ {id} |-> reg[i]]

\* a variant of update_map that inserts the row when the id is not stored
update_map_upsert(reg, entry) ==
    [i \in DOMAIN reg \cup {entry.id} |-> IF i = entry.id THEN RowOfEntry(entry) ELSE reg[i]]

\* update_map: UPDATE ... WHERE id = ?1; no row affected is not an error
update_map(reg, entry) ==
    [i \in DOMAIN reg |-> IF i = entry.id THEN RowOfEntry(entry) ELSE reg[i]]

\* get_map: Option<MapEntry>
get_map(reg, id) ==
    IF id \in DOMAIN reg THEN Some(map_entry_from_row(id, reg[id])) ELSE None

\* list_maps: the entries of all rows
list_maps(reg) == {map_entry_from_row(i, reg[i]) : i \in DOMAIN reg}

(***************************************************************************)
(* The state.                                                              *)
(***************************************************************************)
VARIABLES
    registry,           \* the maps table: id -> row
    addons,             \* files under the add-ons directory: relative path -> content
    outside,            \* files outside the add-ons directory: absolute path -> content
    temp,               \* names present in the scratch directory
    uuid,               \* number of Uuid::new_v4() values handed out
    steam_connection,   \* the OnceCell: "unset", "ready" or "failed"
    assigned,           \* ids that have been the key of a stored row
    last,               \* the last call: operation, arguments and result
    task,               \* callers of get_steam_connection: task -> [pc, seen]
    init_runs,          \* results of the completed runs of SteamConnection::new
    retry,              \* one call of download_with_retry, step by step
    sync,               \* the sync task of main.rs, step by step
    inst,               \* one install of a VPK file, step by step
    chan                \* the watcher's event channel and its two ends

\* the state of the step-by-step models of single functions
stepVars == <<task, init_runs, retry, sync, inst, chan>>

vars == <<registry, addons, outside, temp, uuid, steam_connection, assigned, last, stepVars>>

(***************************************************************************)
(* Files.                                                                  *)
(***************************************************************************)
\* Path::is_file / is_dir for a relative path under the add-ons directory
\* (the empty relative path is the directory itself, "/" the root)
DirPrefix(path) == IF path = <<>> \/ path = <<"/">> THEN path ELSE path \o <<"/">>
IsFile(fs, path) == path \in DOMAIN fs
IsDir(fs, path) ==
    path = <<>> \/ path = <<"/">> \/ \E q \in DOMAIN fs : StartsWith(q, DirPrefix(path))
Exists(fs, path) == IsFile(fs, path) \/ IsDir(fs, path)

\* fs::copy / fs::write to a path: creates or overwrites the file
PutFile(fs, path, content) ==
    [q \in DOMAIN fs \cup {path} |-> IF q = path THEN content ELSE fs[q]]
\* fs::remove_file
RemoveFile(fs, path) == [q \in DOMAIN fs \ {path} |-> fs[q]]
\* fs::remove_dir_all
RemoveDirAll(fs, path) ==
    [q \in {r \in DOMAIN fs : ~StartsWith(r, DirPrefix(path))} |-> fs[q]]

\* The add-ons directory (Config::addons_dir) as an absolute path
AddonsDir == <<"/", "a">>

\* Path::join
PathJoin(base, path) == IF IsAbsolute(path) THEN path ELSE base \o <<"/">> \o path

\* Path::strip_prefix, component by component: Some(rest) or None
StripPrefix(path, base) ==
    LET pc == Components(path)
        bc == Components(base)
    IN IF IsAbsolute(path) = IsAbsolute(base) /\ Len(pc) >= Len(bc)
          /\ SubSeq(pc, 1, Len(bc)) = bc
       THEN Some(JoinWith(SubSeq(pc, Len(bc) + 1, Len(pc)), "/"))
       ELSE None

\* what the operating system resolves an absolute path to (no symlinks):
\* ".." removes the component before it
RECURSIVE Resolve(_, _)
Resolve(comps, acc) ==
    IF comps = <<>> THEN acc
    ELSE IF Head(comps) = ParentDir
         THEN Resolve(Tail(comps), IF acc = <<>> THEN acc ELSE SubSeq(acc, 1, Len(acc) - 1))
         ELSE Resolve(Tail(comps), Append(acc, Head(comps)))

Canonical(path) == <<"/">> \o JoinWith(Resolve(Components(path), <<>>), "/")

\* an absolute path as a place: inside the add-ons directory with its
\* relative path, or outside it
Place(path) ==
    LET canon == Canonical(path)
        rel == StripPrefix(canon, AddonsDir)
    IN IF IsSome(rel) THEN [inside |-> TRUE, path |-> Unwrap(rel)]
       ELSE [inside |-> FALSE, path |-> canon]

PathIsFile(add, out, path) ==
    LET pl == Place(path)
    IN IF pl.inside THEN IsFile(add, pl.path) ELSE IsFile(out, pl.path)
PathIsDir(add, out, path) ==
    LET pl == Place(path)
    IN IF pl.inside THEN IsDir(add, pl.path) ELSE IsDir(out, pl.path)
\* Path::exists
PathExists(add, out, path) == PathIsFile(add, out, path) \/ PathIsDir(add, out, path)
\* the content File::open reads at an absolute path
PathContent(add, out, path) ==
    LET pl == Place(path) IN IF pl.inside THEN add[pl.path] ELSE out[pl.path]

\* Uuid::new_v4() as text: the n-th value handed out
Digits == <<"1", "2", "3", "4", "5", "6", "7", "8", "9">>
DigitValue(c) ==
    CASE c = "0" -> 0 [] c = "1" -> 1 [] c = "2" -> 2 [] c = "3" -> 3 [] c = "4" -> 4
      [] c = "5" -> 5 [] c = "6" -> 6 [] c = "7" -> 7 [] c = "8" -> 8 [] c = "9" -> 9
UuidText(n) == <<Digits[n]>>
\* u64 Display for the workshop ids of the model
DecimalText(n) == <<Digits[n]>>

(***************************************************************************)
(* src/map_installer/service.rs: the install pipeline.  An operator takes  *)
(* the state it works on as st and gives back the outcome                  *)
(* [ok, step, entry, st] with the state it leaves.  st holds the registry, *)
(* the add-ons files, the scratch names and the uuid count, and, for the   *)
(* call in progress, the scratch names it created and the HTTP and Steam   *)
(* requests it sent.                                                       *)
(***************************************************************************)
Failed(st, step) == [ok |-> FALSE, step |-> step, entry |-> None, st |-> st]

\* the call goes through the given steps, in this order; st.trace lists the
\* steps of the call so far
Did(st, steps) == [st EXCEPT !.trace = @ \o steps]

Succeeded(st, entry) == [ok |-> TRUE, step |-> "done", entry |-> Some(entry), st |-> st]

\* Ok(None)
Nothing(st, step) == [ok |-> TRUE, step |-> step, entry |-> None, st |-> st]

\* a variant of EnsureVpkSuffix that keeps the file name as it is
EnsureVpkSuffixKept(vpk_filename) == vpk_filename

\* "Ensure filename ends with .vpk"
EnsureVpkSuffix(vpk_filename) ==
    IF EndsWith(vpk_filename, DotVpk) THEN vpk_filename ELSE vpk_filename \o DotVpk

\* the name of the placed file: the sanitized file name of the source VPK
VpkFilename(source_path) == EnsureVpkSuffix(sanitize_filename(source_path))

\* a variant of ChecksumKind that names the algorithm whether or not a digest
\* was computed
ChecksumKindAlways(checksum) == Some("md5")

\* checksum.as_ref().map(|_| "md5".to_string())
ChecksumKind(checksum) == IF IsSome(checksum) THEN Some("md5") ELSE None

\* a variant of Md5Ok that stores the digest of the bytes that were copied
\* when the placed file cannot be read back
Md5OkOfSource(fault, content) == Some(calculate_file_md5(content))

\* calculate_file_md5(&install_path).await.ok(): the digest, or None when
\* the file cannot be read
Md5Ok(fault, content) ==
    IF fault = "md5" THEN None ELSE Some(calculate_file_md5(content))

\* whether the call computed a digest: "ok", "err", or "none" before the hash
Md5Outcome(fault) == IF fault = "md5" THEN "err" ELSE "ok"

\* a variant of InsertErrorCleanup that leaves the placed file where it is
InsertErrorCleanupNone(placed, vpk_filename) == placed

\* the Err arm of add_map: let _ = tokio::fs::remove_file(&install_path).await
InsertErrorCleanup(placed, vpk_filename) == RemoveFile(placed, vpk_filename)

\* a variant of RegisterSteps that removes the scratch files before add_map
RegisterStepsCleanupFirst(ok) ==
    IF ok THEN <<"hash", "cleanup", "insert">> ELSE <<"hash", "cleanup", "insert", "remove_placed">>

\* the steps after the copy: the hash, add_map, and then the removal of the
\* scratch files, or of the placed file when add_map failed
RegisterSteps(ok) ==
    IF ok THEN <<"hash", "insert", "cleanup">> ELSE <<"hash", "insert", "remove_placed">>

\* The tail shared by install_vpk_file (lines 167-234) and install_zip_file
\* (lines 285-349): fresh id, file name, copy, hash, entry, add_map,
\* cleanup.  cleanup is the set of scratch names removed on success.
PlaceAndRegister(st, vpk_filename, content, map_name, version, source_url, source_kind, workshop_id, cleanup, fault) ==
    LET map_id == st.uuid + 1
        st1 == [st EXCEPT !.uuid = map_id]
    IN IF fault = "copy" \/ IsDir(st.addons, vpk_filename)
       THEN Failed(Did(st1, <<"copy">>), "copy")
       ELSE IF fault = "copy_partial"
       THEN Failed([Did(st1, <<"copy">>) EXCEPT
                        !.addons = PutFile(st.addons, vpk_filename, Partial),
                        !.placed = {vpk_filename}], "copy")
       ELSE
       LET placed == PutFile(st.addons, vpk_filename, content)
           checksum == Md5Ok(fault, placed[vpk_filename])
           checksum_kind == ChecksumKind(checksum)
           map_entry == [id |-> map_id,
                         name |-> map_name,
                         source_url |-> source_url,
                         source_kind |-> source_kind,
                         workshop_id |-> workshop_id,
                         installed_path |-> vpk_filename,
                         version |-> Some(version),
                         checksum |-> checksum,
                         checksum_kind |-> checksum_kind]
           ins == add_map(st.registry, map_entry, fault = "add_map")
       IN IF ~ins.ok
          THEN Failed([Did(st1, <<"copy">> \o RegisterSteps(FALSE)) EXCEPT
                                  !.addons = InsertErrorCleanup(placed, vpk_filename),
                                  !.md5 = Md5Outcome(fault),
                                  !.placed = {vpk_filename},
                                  !.inserted = "err"], "add_map")
          ELSE Succeeded([Did(st1, <<"copy">> \o RegisterSteps(TRUE)) EXCEPT
                                     !.registry = ins.registry,
                                     !.addons = placed,
                                     !.temp = st.temp \ cleanup,
                                     !.md5 = Md5Outcome(fault),
                                     !.placed = {vpk_filename},
                                     !.inserted = "ok"],
                         map_entry)

\* install_vpk_file
install_vpk_file(st, vpk_path, content, source_kind, workshop_id, provided_name, fault) ==
    LET metadata == extract_vpk_metadata(content)
    IN IF ~metadata.ok THEN Failed(Did(st, <<"metadata">>), "metadata")
       ELSE
       LET raw_map_name == IF IsSome(provided_name) THEN Unwrap(provided_name)
                           ELSE metadata.title
           map_name == sanitize_map_name(raw_map_name)
       IN IF ~map_name.ok THEN Failed(Did(st, <<"metadata", "name">>), "name")
          ELSE PlaceAndRegister(Did(st, <<"metadata", "name">>), VpkFilename(vpk_path),
                   content, map_name.v,
                   metadata.version,
                   IF source_kind = "Workshop" /\ IsSome(workshop_id)
                   THEN [scheme |-> "workshop:", rest |-> DecimalText(Unwrap(workshop_id))]
                   ELSE [scheme |-> "file:", rest |-> VpkFilename(vpk_path)],
                   source_kind,
                   IF source_kind = "Workshop" THEN workshop_id ELSE None,
                   {vpk_path}, fault)

\* zip_contains_vpk: some entry name ends in .vpk, ignoring case
zip_contains_vpk(content) ==
    \E i \in 1..Len(content.entries) : EndsWith(ToLower(content.entries[i].name), DotVpk)

\* zip::read::ZipFile::enclosed_name: None for an absolute name or one whose
\* ".." components leave the root
RECURSIVE StaysInside(_, _)
StaysInside(comps, depth) ==
    IF comps = <<>> THEN TRUE
    ELSE IF Head(comps) = ParentDir
         THEN depth > 0 /\ StaysInside(Tail(comps), depth - 1)
         ELSE StaysInside(Tail(comps), depth + 1)

enclosed_name(name) ==
    IF IsAbsolute(name) \/ ~StaysInside(Components(name), 0) THEN None ELSE Some(name)

\* extract_zip followed by find_vpk_files_in_extracted: the extracted regular
\* files whose extension is vpk, ignoring case, as [name, data]
find_vpk_files_in_extracted(content) ==
    SelectSeq(content.entries,
              LAMBDA e : /\ IsSome(enclosed_name(e.name))
                         /\ ~EndsWith(e.name, <<"/">>)
                         /\ IsSome(Extension(e.name))
                         /\ ToLower(Unwrap(Extension(e.name))) = <<"v", "p", "k">>)

\* install_zip_file; pick is the position read_dir gives first
install_zip_file(st, zip_path, content, source_kind, workshop_id, provided_name, fault, pick) ==
    IF content.t # "zip" THEN Failed(Did(st, <<"zip_precheck">>), "zip_open")
    ELSE IF ~zip_contains_vpk(content) THEN Failed(Did(st, <<"zip_precheck">>), "zip_precheck")
    ELSE
    LET extract_temp == <<"extract-">> \o UuidText(st.uuid + 1)
        st0 == [Did(st, <<"zip_precheck", "extract">>) EXCEPT
                          !.uuid = st.uuid + 1,
                          !.temp = st.temp \cup {extract_temp},
                          !.created = st.created \cup {extract_temp}]
        removed == [Did(st0, <<"remove_scratch">>) EXCEPT !.temp = st0.temp \ {extract_temp}]
        vpk_files == find_vpk_files_in_extracted(content)
        st1 == Did(st0, <<"metadata">>)
    IN IF fault = "extract" THEN Failed(removed, "extract")
       ELSE IF vpk_files = <<>> THEN Failed(removed, "no_vpk")
       ELSE
       LET source_vpk == vpk_files[IF pick <= Len(vpk_files) THEN pick ELSE 1]
           metadata == extract_vpk_metadata(source_vpk.data)
       IN IF ~metadata.ok THEN Failed(st1, "metadata")
          ELSE
          LET raw_map_name == IF IsSome(provided_name) THEN Unwrap(provided_name)
                              ELSE metadata.title
              map_name == sanitize_map_name(raw_map_name)
          IN IF ~map_name.ok THEN Failed(Did(st1, <<"name">>), "name")
             ELSE PlaceAndRegister(Did(st1, <<"name">>), VpkFilename(source_vpk.name),
                      source_vpk.data,
                      map_name.v, metadata.version,
                      [scheme |-> "zip:", rest |-> zip_path],
                      source_kind, None, {zip_path, extract_temp}, fault)

\* is_vpk_file
is_vpk_file(content) == extract_vpk_metadata(content).ok

\* a variant of ProbesContent that probes every file whose extension is
\* neither vpk nor zip
ProbesContentAlways(ext, file_ext) == TRUE

\* `if file_path.extension().is_none() || file_ext.is_empty()` (line 129)
ProbesContent(ext, file_ext) == ext = None \/ file_ext = <<>>

\* install_downloaded_file
install_downloaded_file(st, file_path, content, source_kind, workshop_id, provided_name, fault, pick) ==
    LET ext == Extension(file_path)
        file_ext == IF IsSome(ext) THEN ToLower(Unwrap(ext)) ELSE <<>>
        typed == Did(st, <<"type">>)
    IN IF file_ext = <<"v", "p", "k">>
       THEN install_vpk_file(typed, file_path, content, source_kind, workshop_id,
                             provided_name, fault)
       ELSE IF file_ext = <<"z", "i", "p">>
       THEN install_zip_file(typed, file_path, content, source_kind, workshop_id,
                             provided_name, fault, pick)
       ELSE IF ProbesContent(ext, file_ext) /\ is_vpk_file(content)
       THEN install_vpk_file(typed, file_path, content, source_kind, workshop_id,
                             provided_name, fault)
       ELSE Failed(typed, "type")

(***************************************************************************)
(* src/utils/url_validator.rs.  A URL is what Url::parse gives:             *)
(* [scheme, host, last], last being the text after the final '/'.          *)
(***************************************************************************)
T_localhost == <<"l", "o", "c", "a", "l", "h", "o", "s", "t">>
T_127_0_0_1 == <<"1", "2", "7", ".", "0", ".", "0", ".", "1">>
T_0_0_0_0 == <<"0", ".", "0", ".", "0", ".", "0">>
T_v6_loopback == <<":", ":", "1">>
T_v6_loopback_br == <<"[", ":", ":", "1", "]">>
T_v6_any_br == <<"[", ":", ":", "]">>

\* is_localhost
is_localhost(host) ==
    LET host_lower == ToLower(host)
    IN \/ host_lower \in {T_localhost, T_127_0_0_1, T_v6_loopback, T_0_0_0_0,
                          T_v6_loopback_br, T_v6_any_br}
       \/ StartsWith(host_lower, <<"1", "2", "7", ".">>)

RECURSIVE DecimalValue(_, _)
DecimalValue(s, acc) ==
    IF s = <<>> THEN acc ELSE DecimalValue(Tail(s), acc * 10 + DigitValue(Head(s)))

IsDecimal(s) == s # <<>> /\ Len(s) <= 3 /\ \A i \in 1..Len(s) : s[i] \in DigitChars

\* host.parse::<IpAddr>() for dotted IPv4 text: Some(octets) or None
ParseIpv4(host) ==
    LET parts == Split(host, ".")
    IN IF /\ Len(parts) = 4
          /\ \A i \in 1..4 : IsDecimal(parts[i]) /\ DecimalValue(parts[i], 0) <= 255
       THEN Some([i \in 1..4 |-> DecimalValue(parts[i], 0)])
       ELSE None

\* is_private_ipv4
is_private_ipv4(octets) ==
    \/ octets[1] = 10
    \/ (octets[1] = 172 /\ octets[2] >= 16 /\ octets[2] <= 31)
    \/ (octets[1] = 192 /\ octets[2] = 168)
    \/ (octets[1] = 169 /\ octets[2] = 254)
    \/ octets[1] = 127

HexChars == DigitChars \cup {"a", "b", "c", "d", "e", "f"}
HexValue(c) ==
    CASE c = "a" -> 10 [] c = "b" -> 11 [] c = "c" -> 12 [] c = "d" -> 13
      [] c = "e" -> 14 [] c = "f" -> 15 [] OTHER -> DigitValue(c)

RECURSIVE HexGroupValue(_, _)
HexGroupValue(s, acc) ==
    IF s = <<>> THEN acc ELSE HexGroupValue(Tail(s), acc * 16 + HexValue(Head(s)))

IsHexGroup(s) == s # <<>> /\ Len(s) <= 4 /\ \A i \in 1..Len(s) : s[i] \in HexChars

\* the 16-bit segments a run of ':'-separated groups stands for; a dotted
\* IPv4 tail stands for two segments; None when a group is not well formed
RECURSIVE Ipv6Groups(_)
Ipv6Groups(groups) ==
    IF groups = <<>> THEN Some(<<>>)
    ELSE LET g == Head(groups)
             rest == Ipv6Groups(Tail(groups))
             v4 == ParseIpv4(g)
         IN IF rest = None THEN None
            ELSE IF IsHexGroup(g) THEN Some(<<HexGroupValue(g, 0)>> \o Unwrap(rest))
            ELSE IF Tail(groups) = <<>> /\ IsSome(v4)
            THEN Some(<<Unwrap(v4)[1] * 256 + Unwrap(v4)[2],
                        Unwrap(v4)[3] * 256 + Unwrap(v4)[4]>>)
            ELSE None

\* host.parse::<IpAddr>() for IPv6 text (std::net::Ipv6Addr::from_str): hex
\* groups separated by ':', at most one "::" standing for the missing zero
\* groups, no brackets; Some(segments) or None
ParseIpv6(host) ==
    LET raw == Split(host, ":")
        n == Len(raw)
        \* a leading or trailing "::" gives two empty groups: keep one
        lead == IF n >= 3 /\ raw[1] = <<>> /\ raw[2] = <<>> THEN Tail(raw) ELSE raw
        groups == IF Len(lead) >= 2 /\ lead[Len(lead)] = <<>> /\ lead[Len(lead) - 1] = <<>>
                  THEN SubSeq(lead, 1, Len(lead) - 1) ELSE lead
        gaps == {i \in 1..Len(groups) : groups[i] = <<>>}
    IN IF n < 3 \/ Cardinality(gaps) > 1 THEN None
       ELSE IF gaps = {}
       THEN LET segs == Ipv6Groups(groups)
            IN IF IsSome(segs) /\ Len(Unwrap(segs)) = 8 THEN segs ELSE None
       ELSE LET at == CHOOSE i \in gaps : TRUE
                before == Ipv6Groups(SubSeq(groups, 1, at - 1))
                after == Ipv6Groups(SubSeq(groups, at + 1, Len(groups)))
            IN IF before = None \/ after = None THEN None
               ELSE IF Len(Unwrap(before)) + Len(Unwrap(after)) > 7 THEN None
               ELSE Some(Unwrap(before)
                         \o [i \in 1..(8 - Len(Unwrap(before)) - Len(Unwrap(after))) |-> 0]
                         \o Unwrap(after))

\* is_private_ipv6; (s & 0xfe00) == 0xfc00 is s div 512 = 126 and
\* (s & 0xffc0) == 0xfe80 is s div 64 = 1018
is_private_ipv6(segments) ==
    \/ segments = <<0, 0, 0, 0, 0, 0, 0, 1>>
    \/ segments[1] \div 512 = 126
    \/ segments[1] \div 64 = 1018
    \/ /\ \A i \in 1..5 : segments[i] = 0
       /\ segments[6] = 65535
       /\ is_private_ipv4(<<segments[7] \div 256, segments[7] % 256,
                            segments[8] \div 256, segments[8] % 256>>)

\* host.parse::<IpAddr>() followed by is_private_ip: FALSE when the text is
\* not an address
is_private_ip_text(host) ==
    LET v4 == ParseIpv4(host)
        v6 == ParseIpv6(host)
    IN IF IsSome(v4) THEN is_private_ipv4(Unwrap(v4))
       ELSE IF IsSome(v6) THEN is_private_ipv6(Unwrap(v6))
       ELSE FALSE

MAX_URL_LENGTH == 2048

\* url_str.len() of the text "scheme://host/last" the record stands for; a
\* text without a scheme is its last part alone
UrlLen(url) ==
    IF url.scheme = "" THEN Len(url.last)
    ELSE (CASE url.scheme = "https" -> 5 [] url.scheme = "http" -> 4
            [] url.scheme = "file" -> 4 [] url.scheme = "ftp" -> 3)
         + 3 + Len(url.host) + 1 + Len(url.last)

\* Url::parse(url_str) succeeds: a text without a scheme is a relative
\* reference (no base), and http, https and ftp need a host
UrlParses(url) ==
    /\ url.scheme # ""
    /\ url.scheme \in {"http", "https", "ftp"} => url.host # <<>>

\* validate_url; url.host is the text url.host_str() gives, an IPv6 address
\* in brackets
validate_url(url) ==
    /\ UrlLen(url) <= MAX_URL_LENGTH
    /\ UrlParses(url)
    /\ url.scheme \in {"http", "https"}
    /\ url.host # <<>>
    /\ ~is_localhost(url.host)
    /\ ~is_private_ip_text(url.host)

(***************************************************************************)
(* src/downloader: the HTTP fetcher and the two downloaders.               *)
(***************************************************************************)
\* download_with_retry: first_ok is the attempt that succeeds, 0 when none
\* does; gives [ok, attempts]
download_with_retry(first_ok) ==
    IF first_ok \in 1..max_retries
    THEN [ok |-> TRUE, attempts |-> first_ok]
    ELSE [ok |-> FALSE, attempts |-> max_retries]

\* the scratch path of a download: "<uuid>-<filename>"
DownloadPath(n, filename) == UuidText(n) \o <<"-">> \o filename

\* ZipDownloader::download_zip: filename is url.split('/').last()
download_zip_filename(url) == url.last

\* WorkshopDownloader::download_workshop_item: the last segment up to '?',
\* str::split('?').next()
download_workshop_filename(url) == Split(url.last, "?")[1]

(***************************************************************************)
(* The entry points of MapInstallationService.                             *)
(***************************************************************************)
\* a variant of NameTaken that compares the provided name as typed
NameTakenUnsanitized(reg, name) ==
    /\ IsSome(name)
    /\ \E m \in list_maps(reg) : m.name = Unwrap(name)

\* lines 49-57 and 76-84: a provided name whose sanitized form is the name of
\* a listed entry
NameTaken(reg, name) ==
    /\ IsSome(name)
    /\ LET sanitized_name == sanitize_map_name(Unwrap(name))
       IN /\ sanitized_name.ok
          /\ \E m \in list_maps(reg) : m.name = sanitized_name.v

\* the download of a URL to "<uuid>-<filename>" in the scratch directory
\* (download_zip, and step 3 of download_workshop_item)
Download(st, filename, env) ==
    LET output_path == DownloadPath(st.uuid + 1, filename)
        dl == download_with_retry(env.first_ok)
        st1 == [Did(st, <<"download">>) EXCEPT !.uuid = st.uuid + 1,
                                               !.http = st.http + dl.attempts]
    IN IF ~dl.ok
       THEN [ok |-> FALSE, path |-> output_path, st |-> st1]
       ELSE [ok |-> TRUE, path |-> output_path,
             st |-> [st1 EXCEPT !.temp = st1.temp \cup {output_path},
                                !.created = st1.created \cup {output_path}]]

\* install_from_zip_url
install_from_zip_url(st, url, name, env) ==
    LET dl == Download(st, download_zip_filename(url), env)
    IN IF ~dl.ok THEN Failed(dl.st, "download")
       ELSE install_downloaded_file(dl.st, dl.path, env.body, "Other", None, name,
                                    env.fault, env.pick)

\* install_from_url
install_from_url(st, url, name, env) ==
    IF NameTaken(st.registry, name) THEN Failed(st, "name_conflict")
    ELSE IF ~validate_url(url) THEN Failed(st, "url")
    ELSE install_from_zip_url(st, url, name, env)

\* What the Steam network does to one workshop install: discovery or the
\* anonymous connect fails, or one of the two requests meets the outcome named
SteamFailures == {"discover", "connect", "details_net", "details_empty", "hcontent_zero",
                  "ugc_net", "eresult", "eresult_no_url", "no_url", "empty_url"}

\* the empty string as a URL
EmptyUrl == [scheme |-> "", host |-> <<>>, last |-> <<>>]

\* Result<T, SteamError>
SteamOk(v) == [ok |-> TRUE, v |-> v]
SteamErr(kind, arg) == [ok |-> FALSE, kind |-> kind, arg |-> arg]

\* SteamConnection::new: discovery, then the anonymous connect; gives the
\* value of the cell and the requests made
SteamConnectionNew(steam) ==
    IF steam = "discover" THEN [cell |-> "failed", log |-> <<[req |-> "discover"]>>]
    ELSE IF steam = "connect"
    THEN [cell |-> "failed", log |-> <<[req |-> "discover"], [req |-> "connect"]>>]
    ELSE [cell |-> "ready", log |-> <<[req |-> "discover"], [req |-> "connect"]>>]

\* a variant of get_steam_connection that runs the initializer again when
\* the cell holds an error
get_steam_connection_retrying(cell, steam) ==
    IF cell = "ready" THEN [cell |-> cell, log |-> <<>>] ELSE SteamConnectionNew(steam)

\* get_steam_connection: the initializer runs only when the cell is unset
get_steam_connection(cell, steam) ==
    IF cell # "unset" THEN [cell |-> cell, log |-> <<>>] ELSE SteamConnectionNew(steam)

\* the CPublishedFile_GetDetails_Response the network gives (net: the
\* request came back), details holding hcontent_file of each item
DetailsResponse(steam) ==
    IF steam = "details_net" THEN [net |-> FALSE, details |-> <<>>]
    ELSE IF steam = "details_empty" THEN [net |-> TRUE, details |-> <<>>]
    ELSE IF steam = "hcontent_zero" THEN [net |-> TRUE, details |-> <<0>>]
    ELSE [net |-> TRUE, details |-> <<9>>]

\* the CMsgClientUFSGetUGCDetailsResponse the network gives
UgcResponse(steam, signed_url) ==
    IF steam = "ugc_net" THEN [net |-> FALSE, eresult |-> 0, url |-> None]
    ELSE IF steam = "eresult" THEN [net |-> TRUE, eresult |-> 2, url |-> Some(signed_url)]
    ELSE IF steam = "eresult_no_url" THEN [net |-> TRUE, eresult |-> 2, url |-> None]
    ELSE IF steam = "no_url" THEN [net |-> TRUE, eresult |-> 1, url |-> None]
    ELSE IF steam = "empty_url" THEN [net |-> TRUE, eresult |-> 1, url |-> Some(EmptyUrl)]
    ELSE [net |-> TRUE, eresult |-> 1, url |-> Some(signed_url)]

\* get_hcontent_from_workshop_id, given the response to its request
get_hcontent_from_workshop_id(response, workshop_id) ==
    IF ~response.net THEN SteamErr("Network", None)
    ELSE IF response.details = <<>> THEN SteamErr("WorkshopIdNotFound", Some(workshop_id))
    ELSE IF response.details[1] = 0 THEN SteamErr("WorkshopIdNotFound", Some(workshop_id))
    ELSE SteamOk(response.details[1])

\* a variant of get_download_url that looks at the URL before eresult
get_download_url_url_first(response) ==
    IF ~response.net THEN SteamErr("Network", None)
    ELSE IF response.url = None \/ Unwrap(response.url) = EmptyUrl THEN SteamErr("NoDownloadUrl", None)
    ELSE IF response.eresult # 1 THEN SteamErr("DownloadUrlFailed", Some(response.eresult))
    ELSE SteamOk(Unwrap(response.url))

\* get_download_url, given the response to its request
get_download_url(response) ==
    IF ~response.net THEN SteamErr("Network", None)
    ELSE IF response.eresult # 1 THEN SteamErr("DownloadUrlFailed", Some(response.eresult))
    ELSE IF response.url = None \/ Unwrap(response.url) = EmptyUrl THEN SteamErr("NoDownloadUrl", None)
    ELSE SteamOk(Unwrap(response.url))

\* download_workshop_item up to its download (lines 42-54): cell is the
\* OnceCell before the call, env.steam what the Steam network does; gives
\* [ok, step, cell, requests, log, error, url]
ResolveWorkshop(cell, workshop_id, env) ==
    LET conn == get_steam_connection(cell, env.steam)
        asked == <<[req |-> "get_steam_connection"]>> \o conn.log
        details == DetailsResponse(env.steam)
        hcontent == get_hcontent_from_workshop_id(details, workshop_id)
        log1 == asked \o <<[req |-> "GetDetails", resp |-> details]>>
        ugc == UgcResponse(env.steam, env.signed_url)
        download_url == get_download_url(ugc)
        log2 == log1 \o <<[req |-> "GetUGCDetails", resp |-> ugc]>>
    IN IF conn.cell = "failed"
       THEN [ok |-> FALSE, step |-> "steam_connect", cell |-> conn.cell,
             requests |-> Len(conn.log), log |-> asked,
             error |-> Some(SteamErr("Connection", None)), url |-> None]
       ELSE IF ~hcontent.ok
       THEN [ok |-> FALSE, step |-> "hcontent", cell |-> conn.cell,
             requests |-> Len(conn.log) + 1, log |-> log1,
             error |-> Some(hcontent), url |-> None]
       ELSE IF ~download_url.ok
       THEN [ok |-> FALSE, step |-> "download_url", cell |-> conn.cell,
             requests |-> Len(conn.log) + 2, log |-> log2,
             error |-> Some(download_url), url |-> None]
       ELSE [ok |-> TRUE, step |-> "done", cell |-> conn.cell,
             requests |-> Len(conn.log) + 2, log |-> log2,
             error |-> None, url |-> Some(download_url.v)]

\* install_from_workshop_id; the outcome carries the OnceCell as cell
install_from_workshop_id(st, cell, workshop_id, name, env) ==
    IF NameTaken(st.registry, name)
    THEN [out |-> Failed(st, "name_conflict"), cell |-> cell]
    ELSE
    LET res == ResolveWorkshop(cell, workshop_id, env)
        st1 == [st EXCEPT !.steam = st.steam + res.requests, !.log = res.log,
                          !.error = res.error]
    IN IF ~res.ok THEN [out |-> Failed(st1, res.step), cell |-> res.cell]
       ELSE
       LET dl == Download(st1, download_workshop_filename(Unwrap(res.url)), env)
       IN IF ~dl.ok THEN [out |-> Failed(dl.st, "download"), cell |-> res.cell]
          ELSE [out |-> install_downloaded_file(dl.st, dl.path, env.body, "Workshop",
                                                Some(workshop_id), name, env.fault,
                                                env.pick),
                cell |-> res.cell]

\* validate_path_within_base: both paths canonicalized, starts_with
validate_path_within_base(path, base) ==
    IsSome(StripPrefix(Canonical(path), Canonical(base)))

\* a variant of validate_path_within_base_new that only looks at the
\* components
validate_path_within_base_new_lexical(add, out, path, base) ==
    LET resolved == PathJoin(base, path)
    IN \A i \in 1..Len(Components(resolved)) : Components(resolved)[i] # ParentDir

\* validate_path_within_base_new
validate_path_within_base_new(add, out, path, base) ==
    LET resolved == PathJoin(base, path)
    IN /\ \A i \in 1..Len(Components(resolved)) : Components(resolved)[i] # ParentDir
       /\ PathExists(add, out, path) => validate_path_within_base(path, base)

\* a variant of MapNotFound that reports success
MapNotFoundIgnored(st) == Nothing(st, "not_found")

\* uninstall_map line 515: ok_or_else(|| anyhow!("Map not found: {}", map_id))?
MapNotFound(st) == Failed(st, "not_found")

\* uninstall_map; the outcome's st carries the files outside as st.outside,
\* its step tells whether "Removed map files" was logged (line 533)
uninstall_map(st, map_id) ==
    LET found == get_map(st.registry, map_id)
    IN IF found = None THEN MapNotFound(st)
       ELSE
       LET map_entry == Unwrap(found)
           installed_path_abs == PathJoin(AddonsDir, map_entry.installed_path)
           pl == Place(installed_path_abs)
       IN IF ~validate_path_within_base_new(st.addons, st.outside, installed_path_abs,
                                            AddonsDir)
          THEN Failed(st, "containment")
          ELSE
          LET st1 ==
                IF PathIsFile(st.addons, st.outside, installed_path_abs)
                THEN IF pl.inside
                     THEN [st EXCEPT !.addons = RemoveFile(st.addons, pl.path)]
                     ELSE [st EXCEPT !.outside = RemoveFile(st.outside, pl.path)]
                ELSE IF PathIsDir(st.addons, st.outside, installed_path_abs)
                THEN IF pl.inside
                     THEN [st EXCEPT !.addons = RemoveDirAll(st.addons, pl.path)]
                     ELSE [st EXCEPT !.outside = RemoveDirAll(st.outside, pl.path)]
                ELSE st
              removed == IF PathExists(st.addons, st.outside, installed_path_abs)
                         THEN "removed_files" ELSE "file_absent"
          IN [Succeeded([st1 EXCEPT !.registry = remove_map(st.registry, map_id)],
                        map_entry) EXCEPT !.step = removed]

\* a variant of RelativePath that keeps the path as reported
RelativePathWhole(path) == Some(path)

\* path.strip_prefix(&self.addons_dir)
RelativePath(path) == StripPrefix(path, AddonsDir)

\* a variant of AlreadyRegistered that finds no entry
AlreadyRegisteredNone(maps, relative_path) == {}

\* maps.iter().find(|m| m.installed_path == relative_path)
AlreadyRegistered(maps, relative_path) ==
    {m \in maps : m.installed_path = relative_path}

\* detect_map_from_path
detect_map_from_path(st, path, fault) ==
    LET stripped == RelativePath(path)
    IN IF stripped = None THEN Nothing(st, "outside")
       ELSE IF Extension(path) # Some(<<"v", "p", "k">>) THEN Nothing(st, "not_vpk")
       ELSE IF ~PathIsFile(st.addons, st.outside, path) THEN Nothing(st, "metadata")
       ELSE
       LET relative_path == Unwrap(stripped)
           content == PathContent(st.addons, st.outside, path)
           metadata == extract_vpk_metadata(content)
           existing == AlreadyRegistered(list_maps(st.registry), relative_path)
       IN IF ~metadata.ok THEN Nothing(st, "metadata")
          ELSE IF existing # {}
          THEN [Succeeded(st, CHOOSE m \in existing : TRUE) EXCEPT !.step = "existing"]
          ELSE
          LET checksum == Md5Ok(fault, content)
              checksum_kind == ChecksumKind(checksum)
              map_id == st.uuid + 1
              map_entry == [id |-> map_id,
                            name |-> metadata.title,
                            source_url |-> [scheme |-> "detected:", rest |-> path],
                            source_kind |-> "Other",
                            workshop_id |-> None,
                            installed_path |-> relative_path,
                            version |-> Some(metadata.version),
                            checksum |-> checksum,
                            checksum_kind |-> checksum_kind]
              ins == add_map(st.registry, map_entry, fault = "add_map")
              st1 == [st EXCEPT !.uuid = map_id, !.md5 = Md5Outcome(fault)]
          IN IF ~ins.ok THEN Failed([st1 EXCEPT !.inserted = "err"], "add_map")
             ELSE Succeeded([st1 EXCEPT !.registry = ins.registry, !.inserted = "ok"],
                            map_entry)

(***************************************************************************)
(* The inputs of the model.                                                *)
(***************************************************************************)
T_m_vpk == <<"m", ".", "v", "p", "k">>
T_M_VPK == <<"s", "/", "M", ".", "V", "P", "K">>
T_m_zip == <<"m", ".", "z", "i", "p">>
T_m == <<"m">>
T_r_txt == <<"r", ".", "t", "x", "t">>
T_up_m_vpk == <<".", ".", "/", "m", ".", "v", "p", "k">>
PublicHost == <<"m", ".", "i", "o">>
PrivateHost == <<"1", "0", ".", "0", ".", "0", ".", "1">>

UrlVpk == [scheme |-> "https", host |-> PublicHost, last |-> T_m_vpk]
UrlZip == [scheme |-> "https", host |-> PublicHost, last |-> T_m_zip]
UrlBare == [scheme |-> "http", host |-> PublicHost, last |-> T_m]
UrlTxt == [scheme |-> "https", host |-> PublicHost, last |-> T_r_txt]
UrlPrivate == [scheme |-> "http", host |-> PrivateHost, last |-> T_m_zip]
UrlFtp == [scheme |-> "ftp", host |-> PublicHost, last |-> T_m_zip]

\* hosts as url.host_str() gives them
T_8_8_8_8 == <<"8", ".", "8", ".", "8", ".", "8">>
T_127_0_0_2 == <<"1", "2", "7", ".", "0", ".", "0", ".", "2">>
T_172_16_0_1 == <<"1", "7", "2", ".", "1", "6", ".", "0", ".", "1">>
T_172_31_0_1 == <<"1", "7", "2", ".", "3", "1", ".", "0", ".", "1">>
T_172_32_0_1 == <<"1", "7", "2", ".", "3", "2", ".", "0", ".", "1">>
T_192_168_1_1 == <<"1", "9", "2", ".", "1", "6", "8", ".", "1", ".", "1">>
T_169_254_0_1 == <<"1", "6", "9", ".", "2", "5", "4", ".", "0", ".", "1">>
T_v6_fc00 == <<"[", "f", "c", "0", "0", ":", ":", "1", "]">>
T_v6_fd00 == <<"[", "f", "d", "0", "0", ":", ":", "1", "]">>
T_v6_fe80 == <<"[", "f", "e", "8", "0", ":", ":", "1", "]">>
T_v6_mapped_10 == <<"[", ":", ":", "f", "f", "f", "f", ":", "a", "0", "0", ":", "1", "]">>
T_v6_mapped_8 == <<"[", ":", ":", "f", "f", "f", "f", ":", "8", "0", "8", ":", "8", "0", "8", "]">>
T_v6_public == <<"[", "2", "0", "0", "1", ":", "d", "b", "8", ":", ":", "1", "]">>

\* the hosts tried: a name, localhost, IPv4 literals in and out of the
\* private ranges, IPv6 literals in and out of them
Hosts ==
    {PublicHost, T_localhost, T_8_8_8_8, T_127_0_0_1, T_127_0_0_2, PrivateHost, T_172_16_0_1,
     T_172_31_0_1, T_172_32_0_1, T_192_168_1_1, T_169_254_0_1, T_v6_loopback_br,
     T_v6_fc00, T_v6_fd00, T_v6_fe80, T_v6_mapped_10, T_v6_mapped_8, T_v6_public}

\* http://8.8.8.8/
Url8888 == [scheme |-> "http", host |-> T_8_8_8_8, last |-> <<>>]

\* "not-a-url" and "123456789"
T_not_a_url == <<"n", "o", "t", "-", "a", "-", "u", "r", "l">>
T_123456789 == <<"1", "2", "3", "4", "5", "6", "7", "8", "9">>

\* the URL texts tried: scheme://host/m.vpk for every scheme and host,
\* file:///m.vpk, an https URL of more than MAX_URL_LENGTH characters, and
\* texts that are no URL
UrlTexts ==
    [scheme : {"http", "https", "ftp"}, host : Hosts, last : {T_m_vpk}]
    \cup {Url8888,
          [scheme |-> "file", host |-> <<>>, last |-> T_m_vpk],
          [scheme |-> "https", host |-> PublicHost, last |-> [i \in 1..MAX_URL_LENGTH |-> "a"]],
          [scheme |-> "http", host |-> <<>>, last |-> T_m_vpk],
          EmptyUrl,
          [scheme |-> "", host |-> <<>>, last |-> T_not_a_url],
          [scheme |-> "", host |-> <<>>, last |-> T_123456789]}

WorkshopIds == {7}

\* display names a caller provides
ProvidedNames == {None, Some(<<"A">>), Some(<<"-">>)}

VpkA == Vpk(Some(<<"A">>), Some(<<"1">>))
VpkB == Vpk(Some(<<"b", " ">>), None)
ZipA == Zip(<<[name |-> T_m_vpk, data |-> VpkA]>>)
ZipB == Zip(<<[name |-> T_M_VPK, data |-> VpkA], [name |-> T_m_vpk, data |-> VpkB]>>)
ZipNoVpk == Zip(<<[name |-> T_r_txt, data |-> Junk]>>)
ZipEscaping == Zip(<<[name |-> T_up_m_vpk, data |-> VpkA]>>)
ZipJunkVpk == Zip(<<[name |-> T_m_vpk, data |-> Junk]>>)

\* what the remote side serves: a URL and the body a download of it brings
RemoteFiles ==
    {[url |-> UrlVpk, body |-> VpkA],
     [url |-> UrlVpk, body |-> Junk],
     [url |-> UrlBare, body |-> VpkB],
     [url |-> UrlTxt, body |-> VpkA],
     [url |-> UrlZip, body |-> ZipA],
     [url |-> UrlZip, body |-> ZipB],
     [url |-> UrlZip, body |-> ZipNoVpk],
     [url |-> UrlZip, body |-> ZipEscaping],
     [url |-> UrlZip, body |-> ZipJunkVpk],
     [url |-> UrlPrivate, body |-> Junk],
     [url |-> UrlFtp, body |-> Junk]}

\* what Steam's signed URLs serve
WorkshopFiles ==
    {[url |-> UrlVpk, body |-> VpkA],
     [url |-> UrlZip, body |-> ZipA]}

\* what the environment may do to one step of a call
Faults == {"none", "extract", "copy", "copy_partial", "md5", "add_map"}

\* the positions read_dir may list first
Picks == 1..2

\* The environment of one install call: the attempt at which the download
\* succeeds (0: never), what it brings, the step that meets a fault and the
\* listing order.  Combinations that differ only in a choice the call never
\* looks at are listed once.
HasVpk(body) ==
    \/ extract_vpk_metadata(body).ok
    \/ body.t = "zip" /\ \E i \in 1..Len(body.entries) :
                            extract_vpk_metadata(body.entries[i].data).ok
Looked(e) ==
    /\ e.pick > 1 => e.body.t = "zip" /\ Len(find_vpk_files_in_extracted(e.body)) > 1
    /\ e.fault = "extract" => e.body.t = "zip" /\ zip_contains_vpk(e.body)
    /\ e.fault \in {"copy", "copy_partial", "md5", "add_map"} => e.body \in {VpkA, ZipA}
    /\ e.first_ok # 1 => e.body = VpkA /\ e.fault = "none" /\ e.pick = 1
InstallEnvs(remote, name) ==
    {e \in [first_ok : 0..max_retries, body : {remote.body}, fault : Faults, pick : Picks] :
        /\ Looked(e)
        /\ ~validate_url(remote.url) => e.fault = "none" /\ e.pick = 1
        /\ IsSome(name) => e.fault = "none" /\ e.first_ok = 1
        /\ IsSome(name) /\ ~sanitize_map_name(Unwrap(name)).ok => e.body = VpkA}

\* the environment of one workshop install call: the same, with what the
\* Steam network does and the signed URL it hands out
WorkshopEnvs(remote, name) ==
    {e \in [first_ok : 0..max_retries, body : {remote.body}, fault : Faults,
            pick : Picks, steam : SteamFailures \cup {"ok"}, signed_url : {remote.url}] :
        /\ Looked(e)
        /\ e.fault \in {"none", "add_map"}
        /\ e.steam # "ok" => e.body = VpkA /\ e.first_ok = 1 /\ e.fault = "none"
        /\ IsSome(name) => e.fault = "none" /\ e.first_ok = 1 /\ e.steam = "ok"
        /\ IsSome(name) /\ ~sanitize_map_name(Unwrap(name)).ok => e.body = VpkA}

\* files a user may put under the add-ons directory, and what is in them
T_sub_x_vpk == <<"s", "/", "x", ".", "v", "p", "k">>
ManualPaths == {T_sub_x_vpk}
ManualContents == {VpkA, Junk}

\* a file outside the add-ons directory
T_outside_vpk == <<"/", "x", "/", "m", ".", "v", "p", "k">>

\* paths of watcher events
EventPaths == {PathJoin(AddonsDir, p) : p \in ManualPaths \cup {T_m_vpk}} \cup {T_outside_vpk}

(***************************************************************************)
(* Init and the actions.                                                   *)
(***************************************************************************)
\* callers of get_steam_connection the step-by-step model follows
MaxTasks == 3
Tasks == 1..MaxTasks

\* a task that has not called get_steam_connection
TaskIdle == [pc |-> "idle", seen |-> "none", ran |-> FALSE]

\* download_with_retry not called
RetryIdle == [pc |-> "idle", attempt |-> 0, last_error |-> None, requests |-> <<>>,
              slept |-> <<>>, result |-> None]

\* the sync task waiting for interval.tick(): nothing fetched, nothing listed
SyncIdle ==
    [pc |-> "tick", updates |-> <<>>, total |-> 0, applied |-> 0, maps |-> None,
     fetched |-> <<>>, calls |-> <<>>, failed |-> {}, before |-> {}]

\* mpsc::channel(1024) as watch() returns it: nothing sent, nothing received
ChannelNew ==
    [queue |-> <<>>, sent |-> 0, dropped |-> {}, received |-> <<>>, skipped |-> 0,
     closed |-> FALSE]

\* the step-by-step models at rest
InstIdle ==
    [pc |-> "idle", vpk_path |-> <<>>, vpk_filename |-> <<>>, map_entry |-> None,
     event |-> "none"]
StepInit ==
    /\ task = [t \in Tasks |-> TaskIdle]
    /\ init_runs = <<>>
    /\ retry = RetryIdle
    /\ sync = SyncIdle
    /\ inst = InstIdle
    /\ chan = ChannelNew

NoCall == [op |-> "none", ok |-> TRUE, step |-> "done", name |-> None, id |-> None,
           entry |-> None, http |-> 0, steam |-> 0, created |-> {}, log |-> <<>>,
           error |-> None, path |-> None, url |-> None, body |-> None, md5 |-> "none",
           placed |-> {}, inserted |-> "none", trace |-> <<>>]

Init ==
    /\ registry = <<>>
    /\ addons = <<>>
    /\ outside = [p \in {T_outside_vpk} |-> VpkB]
    /\ temp = {}
    /\ uuid = 0
    /\ steam_connection = "unset"
    /\ assigned = DOMAIN registry
    /\ last = NoCall
    /\ StepInit

\* the state a call starts from
CallState ==
    [registry |-> registry, addons |-> addons, outside |-> outside, temp |-> temp,
     uuid |-> uuid, created |-> {}, http |-> 0, steam |-> 0, log |-> <<>>, error |-> None,
     md5 |-> "none", placed |-> {}, inserted |-> "none", trace |-> <<>>]

\* the state a call leaves, and its record; path is the path of the watcher
\* event the call was made for, url the URL text it was given, body what the
\* server sent for it
ReturnsWith(op, name, id, path, url, body, out) ==
    /\ registry' = out.st.registry
    /\ addons' = out.st.addons
    /\ outside' = out.st.outside
    /\ temp' = out.st.temp
    /\ uuid' = out.st.uuid
    /\ assigned' = assigned \cup DOMAIN out.st.registry
    /\ last' = [op |-> op, ok |-> out.ok, step |-> out.step, name |-> name, id |-> id,
                entry |-> out.entry, http |-> out.st.http, steam |-> out.st.steam,
                created |-> out.st.created, log |-> out.st.log, error |-> out.st.error,
                path |-> path, url |-> url, body |-> body, md5 |-> out.st.md5,
                placed |-> out.st.placed, inserted |-> out.st.inserted,
                trace |-> out.st.trace]
    /\ UNCHANGED stepVars

ReturnsAt(op, name, id, path, url, out) == ReturnsWith(op, name, id, path, url, None, out)

\* the state a call of an HTTP handler leaves, and its record
Returns(op, name, id, out) == ReturnsAt(op, name, id, None, None, out)

InstallFromUrl(url, name, env) ==
    LET out == install_from_url(CallState, url, name, env)
    IN /\ last = NoCall
       /\ out.st.uuid <= MaxUuid
       /\ Returns("install_from_url", name, None, out)
       /\ UNCHANGED steam_connection

InstallFromWorkshopId(workshop_id, name, env) ==
    LET r == install_from_workshop_id(CallState, steam_connection, workshop_id, name, env)
    IN /\ last = NoCall
       /\ r.out.st.uuid <= MaxUuid
       /\ Returns("install_from_workshop_id", name, None, r.out)
       /\ steam_connection' = r.cell

UninstallMap(map_id) ==
    /\ last = NoCall
    /\ Returns("uninstall_map", None, Some(map_id), uninstall_map(CallState, map_id))
    /\ UNCHANGED steam_connection

\* the watcher task's Create arm (main.rs)
WatcherCreate(path, fault) ==
    LET out == detect_map_from_path(CallState, path, fault)
    IN /\ last = NoCall
       /\ out.st.uuid <= MaxUuid
       /\ ReturnsAt("detect_map_from_path", None, None, Some(path), None, out)
       /\ UNCHANGED steam_connection

\* a variant of WatcherLogs that drops the entries of the event's path
WatcherForgets(kind, path) ==
    /\ last = NoCall
    /\ last' = [NoCall EXCEPT !.op = kind, !.path = Some(path)]
    /\ registry' = [id \in {i \in DOMAIN registry :
                               Some(registry[i].installed_path) # RelativePath(path)}
                       |-> registry[id]]
    /\ UNCHANGED <<addons, outside, temp, uuid, steam_connection, assigned, stepVars>>

\* the watcher task's Remove and Modify arms (main.rs): the event is logged
WatcherLogs(kind, path) ==
    /\ last = NoCall
    /\ last' = [NoCall EXCEPT !.op = kind, !.path = Some(path)]
    /\ UNCHANGED <<registry, addons, outside, temp, uuid, steam_connection, assigned, stepVars>>

WatcherRemove(path) == WatcherLogs("watcher_remove", path)

WatcherModify(path) == WatcherLogs("watcher_modify", path)

\* a user deletes a file of the add-ons directory
ManualRemove(path) ==
    /\ last = NoCall
    /\ IsFile(addons, path)
    /\ addons' = RemoveFile(addons, path)
    /\ UNCHANGED <<registry, outside, temp, uuid, steam_connection, assigned, last, stepVars>>

\* a user copies a file into the add-ons directory
ManualPlace(path, content) ==
    /\ last = NoCall
    /\ ~IsDir(addons, path)
    /\ addons' = PutFile(addons, path, content)
    /\ UNCHANGED <<registry, outside, temp, uuid, steam_connection, assigned, last, stepVars>>

\* the caller takes the result of the call that returned
TakeResult ==
    /\ last # NoCall
    /\ last' = NoCall
    /\ UNCHANGED <<registry, addons, outside, temp, uuid, steam_connection, assigned, stepVars>>

\* ids a caller may name: those in the registry, the last one handed out and
\* one that never was
KnownIds == DOMAIN registry \cup {uuid, MaxUuid + 1}

Next ==
    \/ \E remote \in RemoteFiles, name \in ProvidedNames :
          \E env \in InstallEnvs(remote, name) : InstallFromUrl(remote.url, name, env)
    \/ \E w \in WorkshopIds, remote \in WorkshopFiles, name \in ProvidedNames :
          \E env \in WorkshopEnvs(remote, name) : InstallFromWorkshopId(w, name, env)
    \/ \E id \in KnownIds : UninstallMap(id)
    \/ TakeResult

\* the HTTP handlers of the service
Spec == Init /\ [][Next]_vars

\* installs whose download succeeds at once and brings a VPK, alone or in a
\* ZIP; the one fault they may meet is a digest that cannot be computed
PlainRemotes ==
    {[url |-> UrlVpk, body |-> VpkA], [url |-> UrlBare, body |-> VpkB],
     [url |-> UrlZip, body |-> ZipB]}
PlainEnvs(remote) ==
    [first_ok : {1}, body : {remote.body}, fault : {"none", "md5"}, pick : {1},
     steam : {"ok"}, signed_url : {remote.url}]

NextWatch ==
    \/ \E remote \in PlainRemotes :
          \E env \in PlainEnvs(remote) : InstallFromUrl(remote.url, None, env)
    \/ \E w \in WorkshopIds, remote \in PlainRemotes :
          \E env \in PlainEnvs(remote) : InstallFromWorkshopId(w, None, env)
    \/ \E id \in KnownIds : UninstallMap(id)
    \/ \E path \in EventPaths, fault \in {"none", "md5", "add_map"} : WatcherCreate(path, fault)
    \/ \E path \in ManualPaths, content \in ManualContents : ManualPlace(path, content)
    \/ \E path \in EventPaths : WatcherRemove(path)
    \/ \E path \in EventPaths : WatcherModify(path)
    \/ \E path \in ManualPaths \cup {T_m_vpk} : ManualRemove(path)
    \/ TakeResult

\* the HTTP handlers and the watcher task
SpecWatch == Init /\ [][NextWatch]_vars

(***************************************************************************)
(* The registry used directly (src/registry/sqlite.rs and its tests).      *)
(***************************************************************************)
\* ids a caller of add_map chooses itself; an id of the model is a name for a
\* distinct text, these are distinct from every Uuid::new_v4() value
DirectIds == {MaxUuid + 1 + i : i \in 1..MaxRows}

\* entries with every optional field present, as an install of a workshop
\* item builds them
FullEntries ==
    [id : DirectIds,
     name : {<<"b">>},
     source_url : {[scheme |-> "workshop:", rest |-> DecimalText(7)]},
     source_kind : {"Workshop"},
     workshop_id : {Some(7)},
     installed_path : {T_m_vpk},
     version : {Some(<<"1">>)},
     checksum : {Some(calculate_file_md5(VpkA))},
     checksum_kind : {Some("md5")}]

\* entries a caller of add_map or update_map passes
DirectEntries ==
    [id : DirectIds,
     name : {<<"a">>},
     source_url : {[scheme |-> "file:", rest |-> T_m_vpk]},
     source_kind : {"Workshop", "Other"},
     workshop_id : {None, Some(7)},
     installed_path : {T_m_vpk, T_outside_vpk, T_up_m_vpk},
     version : {None},
     checksum : {None},
     checksum_kind : {None}]
    \cup FullEntries

\* a row an earlier version of the daemon stored: a source_kind this version
\* does not know, with a workshop_id
LegacyRow ==
    [name |-> <<"o", "l", "d">>,
     source_url |-> [scheme |-> "file:", rest |-> T_m_zip],
     source_kind |-> "legacy",
     workshop_id |-> Some(7),
     installed_path |-> <<"o", ".", "v", "p", "k">>,
     version |-> None,
     checksum |-> None,
     checksum_kind |-> None]

\* the maps table SqliteRegistry::new finds in the database file
StoredTables == {<<>>} \cup {[i \in {d} |-> LegacyRow] : d \in DirectIds}

InitRegistry ==
    /\ registry \in StoredTables
    /\ addons = <<>>
    /\ outside = [p \in {T_outside_vpk} |-> VpkB]
    /\ temp = {}
    /\ uuid = 0
    /\ steam_connection = "unset"
    /\ assigned = DOMAIN registry
    /\ last = NoCall
    /\ StepInit

\* the record of a registry call
RegistryCall(op, ok, id, entry) ==
    [op |-> op, ok |-> ok, step |-> IF ok THEN "done" ELSE "add_map", name |-> None,
     id |-> Some(id), entry |-> entry, http |-> 0, steam |-> 0, created |-> {},
     log |-> <<>>, error |-> None, path |-> None, url |-> None, body |-> None,
     md5 |-> "none", placed |-> {},
     inserted |-> IF op # "add_map" THEN "none" ELSE IF ok THEN "ok" ELSE "err",
     trace |-> <<>>]

AddMap(entry, dbError) ==
    LET ins == add_map(registry, entry, dbError)
    IN /\ last = NoCall
       /\ registry' = ins.registry
       /\ assigned' = assigned \cup DOMAIN ins.registry
       /\ last' = RegistryCall("add_map", ins.ok, entry.id, Some(entry))
       /\ UNCHANGED <<addons, outside, temp, uuid, steam_connection, stepVars>>

UpdateMap(entry) ==
    /\ last = NoCall
    /\ registry' = update_map(registry, entry)
    /\ UNCHANGED assigned
    /\ last' = RegistryCall("update_map", TRUE, entry.id, Some(entry))
    /\ UNCHANGED <<addons, outside, temp, uuid, steam_connection, stepVars>>

RemoveMap(id) ==
    /\ last = NoCall
    /\ registry' = remove_map(registry, id)
    /\ UNCHANGED assigned
    /\ last' = RegistryCall("remove_map", TRUE, id, None)
    /\ UNCHANGED <<addons, outside, temp, uuid, steam_connection, stepVars>>

NextRegistry ==
    \/ \E entry \in DirectEntries, dbError \in BOOLEAN : AddMap(entry, dbError)
    \/ \E entry \in DirectEntries : UpdateMap(entry)
    \/ \E id \in DirectIds : RemoveMap(id)
    \/ TakeResult

\* the registry alone
SpecRegistry == InitRegistry /\ [][NextRegistry]_vars

\* entries whose installed_path a caller chose, under one id
PathEntries ==
    {e \in DirectEntries :
        e.id = MaxUuid + 2 /\ e.source_kind = "Other" /\ e.workshop_id = None}

NextAll ==
    \/ \E entry \in PathEntries : AddMap(entry, FALSE)
    \/ \E entry \in PathEntries : UpdateMap(entry)
    \/ NextWatch

\* every writer of the registry: its own callers, the installs and the watcher
SpecAll == Init /\ [][NextAll]_vars

(***************************************************************************)
(* get_steam_connection step by step: tokio's OnceCell::get_or_init returns *)
(* the value when it is set; otherwise the caller waits for the cell's one  *)
(* permit, runs the initializer while holding it, and stores the result,    *)
(* which closes the semaphore.  A caller dropped while it holds the permit  *)
(* gives it back.                                                           *)
(***************************************************************************)
\* a variant of PermitFree under which the permit is never taken
PermitAlwaysFree(tk) == TRUE

\* the permit is held by the task that is in the initializer
PermitFree(tk) == \A t \in Tasks : tk[t].pc \notin {"discover", "connect"}

\* what the steps of this model leave alone
SteamOnly == UNCHANGED <<registry, addons, outside, temp, uuid, assigned, last, retry, sync, inst, chan>>

\* get_or_init is called: the value when it is set, else semaphore.acquire()
GetOrInit(t) ==
    /\ task[t].pc = "idle"
    /\ task' = [task EXCEPT ![t] =
                  IF steam_connection # "unset"
                  THEN [@ EXCEPT !.pc = "done", !.seen = steam_connection]
                  ELSE [@ EXCEPT !.pc = "acquire"]]
    /\ UNCHANGED <<steam_connection, init_runs>>
    /\ SteamOnly

\* acquire() returns: an error when the semaphore is closed (the value is
\* set), the permit when it is free
Acquire(t) ==
    /\ task[t].pc = "acquire"
    /\ IF steam_connection # "unset"
       THEN task' = [task EXCEPT ![t] = [@ EXCEPT !.pc = "done", !.seen = steam_connection]]
       ELSE /\ PermitFree(task)
            /\ task' = [task EXCEPT ![t] = [@ EXCEPT !.pc = "discover", !.ran = TRUE]]
    /\ UNCHANGED <<steam_connection, init_runs>>
    /\ SteamOnly

\* set_value: the initializer has run to completion with value
SetValue(t, value) ==
    /\ steam_connection' = value
    /\ init_runs' = Append(init_runs, value)
    /\ task' = [task EXCEPT ![t] = [@ EXCEPT !.pc = "done", !.seen = value]]

\* SteamConnection::new: ServerList::discover() returns
Discover(t, ok) ==
    /\ task[t].pc = "discover"
    /\ IF ok
       THEN /\ task' = [task EXCEPT ![t] = [@ EXCEPT !.pc = "connect"]]
            /\ UNCHANGED <<steam_connection, init_runs>>
       ELSE SetValue(t, "failed")
    /\ SteamOnly

\* SteamConnection::new: Connection::anonymous() returns
Connect(t, ok) ==
    /\ task[t].pc = "connect"
    /\ SetValue(t, IF ok THEN "ready" ELSE "failed")
    /\ SteamOnly

\* the handler's future is dropped at an await of get_or_init (the client of
\* the HTTP request went away)
Cancel(t) ==
    /\ task[t].pc \in {"acquire", "discover", "connect"}
    /\ task' = [task EXCEPT ![t] = [@ EXCEPT !.pc = "dropped"]]
    /\ UNCHANGED <<steam_connection, init_runs>>
    /\ SteamOnly

NextSteam ==
    \/ \E t \in Tasks : GetOrInit(t)
    \/ \E t \in Tasks : Acquire(t)
    \/ \E t \in Tasks, ok \in BOOLEAN : Discover(t, ok)
    \/ \E t \in Tasks, ok \in BOOLEAN : Connect(t, ok)
    \/ \E t \in Tasks : Cancel(t)

\* workshop installs started concurrently on one service
SpecSteam == Init /\ [][NextSteam]_vars

(***************************************************************************)
(* download_with_retry step by step (src/downloader/client.rs).            *)
(***************************************************************************)
\* what one download_once may meet: send() fails, or the final response
\* (redirects with a Location are followed by the client) has the status
\* named and then bytes() fails, fs::write fails, or the body is written
Statuses == {200, 304, 404, 500}
AttemptOutcomes ==
    {[send |-> FALSE, status |-> 0, rest |-> "none"]}
    \cup [send : {TRUE}, status : Statuses, rest : {"written"}]
    \cup [send : {TRUE}, status : {200}, rest : {"body", "write"}]

\* reqwest's Response::error_for_status_ref: Err for a client error or a
\* server error status
error_for_status(status) == status \in 400..599

\* download_once (lines 59-63), given what it meets
download_once(outcome) ==
    /\ outcome.send
    /\ ~error_for_status(outcome.status)
    /\ outcome.rest = "written"

\* `for attempt in 1..=self.max_retries`: the loop has a next round
MoreAttempts(attempt) == attempt < max_retries

\* 2_u64.pow(attempt)
RECURSIVE Pow2(_)
Pow2(n) == IF n = 0 THEN 1 ELSE 2 * Pow2(n - 1)

\* what the steps of this model leave alone
RetryOnly == UNCHANGED <<registry, addons, outside, temp, uuid, steam_connection, assigned, last, task, init_runs, sync, inst, chan>>

\* download_with_retry is called: last_error = None, the loop starts at 1
RetryCall ==
    /\ retry.pc = "idle"
    /\ retry' = [RetryIdle EXCEPT !.pc = "attempt", !.attempt = 1]
    /\ RetryOnly

\* download_once returns: Ok returns at once; Err is kept as last_error and
\* the loop sleeps when it has a next round, else it ends and the function
\* returns Err(last_error)
DownloadOnce(outcome) ==
    /\ retry.pc = "attempt"
    /\ LET sent == Append(retry.requests, outcome)
       IN retry' =
            IF download_once(outcome)
            THEN [retry EXCEPT !.pc = "returned", !.requests = sent,
                               !.result = Some([ok |-> TRUE, error |-> None])]
            ELSE IF MoreAttempts(retry.attempt)
            THEN [retry EXCEPT !.pc = "sleep", !.requests = sent,
                               !.last_error = Some(outcome)]
            ELSE [retry EXCEPT !.pc = "returned", !.requests = sent,
                               !.last_error = Some(outcome),
                               !.result = Some([ok |-> FALSE, error |-> Some(outcome)])]
    /\ RetryOnly

\* tokio::time::sleep(2^attempt seconds) is over: the next round
SleepOver ==
    /\ retry.pc = "sleep"
    /\ retry' = [retry EXCEPT !.pc = "attempt", !.attempt = retry.attempt + 1,
                              !.slept = Append(retry.slept, Pow2(retry.attempt))]
    /\ RetryOnly

NextRetry ==
    \/ RetryCall
    \/ \E outcome \in AttemptOutcomes : DownloadOnce(outcome)
    \/ SleepOver

\* one call of download_with_retry
SpecRetry == Init /\ [][NextRetry]_vars

(***************************************************************************)
(* The sync task of main.rs step by step, beside the HTTP handlers.        *)
(***************************************************************************)
\* updates one fetch may bring
MaxUpdates == 2

\* the id the first VPK install gets, which the backend may name
BackendMapId == 2

\* MapUpdate values the backend sends: action, map_id and the map_entry
\* fields the sync task reads
Updates ==
    {[action |-> "install", map_id |-> BackendMapId,
      map_entry |-> Some([workshop_id |-> Some(7), source_url |-> UrlVpk, name |-> <<"a">>])],
     [action |-> "install", map_id |-> BackendMapId,
      map_entry |-> Some([workshop_id |-> None, source_url |-> UrlBare, name |-> <<"A">>])],
     [action |-> "install", map_id |-> BackendMapId, map_entry |-> None],
     [action |-> "uninstall", map_id |-> BackendMapId, map_entry |-> None],
     [action |-> "update", map_id |-> BackendMapId, map_entry |-> None]}

\* the lists fetch_updates may return
UpdateLists == UNION {[1..n -> Updates] : n \in 0..MaxUpdates}

\* what a download of the sync task's installs brings
SyncEnv(url) ==
    [first_ok |-> 1, body |-> IF url = UrlBare THEN VpkB ELSE VpkA, fault |-> "none",
     pick |-> 1, steam |-> "ok", signed_url |-> url]

\* the argument of an installer call of the sync task: the workshop id, the
\* URL or the map id it was given
NoArg == [workshop_id |-> None, source_url |-> None, map_id |-> None]

\* a variant of WantsWorkshop that never takes the workshop branch
WantsWorkshopNever(map_entry) == FALSE

\* `if let Some(workshop_id) = map_entry.workshop_id` (line 113)
WantsWorkshop(map_entry) == IsSome(map_entry.workshop_id)

\* one round of `for update in updates` (lines 107-147): the installer call
\* the update asks for, whose error is logged and dropped; gives the state and
\* session cell it leaves, the installer function called with its argument,
\* and whether the call returned Ok
apply_update(st, cell, update) ==
    IF update.action = "install"
    THEN IF update.map_entry = None
         THEN [st |-> st, cell |-> cell, fn |-> "none", arg |-> NoArg, ok |-> TRUE]
         ELSE LET map_entry == Unwrap(update.map_entry)
              IN IF WantsWorkshop(map_entry)
                 THEN LET r == install_from_workshop_id(st, cell, Unwrap(map_entry.workshop_id),
                                                        None, SyncEnv(map_entry.source_url))
                      IN [st |-> r.out.st, cell |-> r.cell, fn |-> "install_from_workshop_id",
                          arg |-> [NoArg EXCEPT !.workshop_id = map_entry.workshop_id], ok |-> r.out.ok]
                 ELSE LET r == install_from_url(st, map_entry.source_url, Some(map_entry.name),
                                                SyncEnv(map_entry.source_url))
                      IN [st |-> r.st, cell |-> cell, fn |-> "install_from_url",
                          arg |-> [NoArg EXCEPT !.source_url = Some(map_entry.source_url)], ok |-> r.ok]
    ELSE IF update.action = "uninstall"
    THEN LET r == uninstall_map(st, update.map_id)
         IN [st |-> r.st, cell |-> cell, fn |-> "uninstall_map",
             arg |-> [NoArg EXCEPT !.map_id = Some(update.map_id)], ok |-> r.ok]
    ELSE [st |-> st, cell |-> cell, fn |-> "none", arg |-> NoArg, ok |-> TRUE]

\* a variant of AfterRound under which a failed call ends the batch
AfterRoundAbort(updates, ok) == IF ok THEN Tail(updates) ELSE <<>>

\* the updates the for loop still has to visit after one round, whatever the
\* round's call returned
AfterRound(updates, ok) == Tail(updates)

\* a variant of PullDone under which the loop may be left at any round
PullDoneEarly(updates) == TRUE

\* the for loop over the fetched updates has ended
PullDone(updates) == updates = <<>>

\* what the steps of the sync task that call nothing leave alone
SyncOnly == UNCHANGED <<registry, addons, outside, temp, uuid, steam_connection, assigned, last, task, init_runs, retry, inst, chan>>

\* the install updates among the calls of a cycle whose installer call
\* returned Ok
SucceededInstalls(calls) ==
    {calls[i].update : i \in {j \in DOMAIN calls :
        calls[j].ok /\ calls[j].fn \in {"install_from_url", "install_from_workshop_id"}}}

\* interval.tick() returns: the next cycle starts; before keeps the install
\* updates the ending cycle applied with success
SyncTick ==
    /\ sync.pc = "tick"
    /\ sync' = [SyncIdle EXCEPT !.pc = "fetch", !.before = SucceededInstalls(sync.calls)]
    /\ SyncOnly

\* a variant of FetchFailed under which the task ends with the error
FetchFailedEnds(s) == [s EXCEPT !.pc = "ended", !.failed = @ \cup {"fetch"}]

\* the Err arm of the fetch (lines 149-151): the error is logged and the
\* cycle goes on to the push
FetchFailed(s) == [s EXCEPT !.pc = "apply", !.failed = @ \cup {"fetch"}]

\* fetch_updates returns: Ok(updates), or Err, which is logged
SyncFetch(ok, updates) ==
    /\ sync.pc = "fetch"
    /\ sync' = IF ok THEN [sync EXCEPT !.pc = "apply", !.updates = updates,
                                       !.total = Len(updates), !.fetched = updates]
               ELSE FetchFailed(sync)
    /\ SyncOnly

\* the state one round of the loop leaves
Applied(r) ==
    /\ r.st.uuid <= MaxUuid
    /\ registry' = r.st.registry
    /\ addons' = r.st.addons
    /\ outside' = r.st.outside
    /\ temp' = r.st.temp
    /\ uuid' = r.st.uuid
    /\ assigned' = assigned \cup DOMAIN r.st.registry
    /\ steam_connection' = r.cell

\* the sync task's record after a round that left r
Rounded(r) ==
    sync' = [sync EXCEPT !.updates = AfterRound(sync.updates, r.ok),
                         !.applied = sync.applied + 1,
                         !.calls = Append(@, [update |-> Head(sync.updates), fn |-> r.fn,
                                              arg |-> r.arg, ok |-> r.ok]),
                         !.failed = IF r.ok THEN @ ELSE @ \cup {"update"}]

\* one update is applied
SyncApply ==
    /\ sync.pc = "apply"
    /\ ~PullDone(sync.updates)
    /\ \E r \in {apply_update(CallState, steam_connection, Head(sync.updates))} :
          Applied(r) /\ Rounded(r)
    /\ UNCHANGED <<last, task, init_runs, retry, inst, chan>>

\* registry().list_maps() returns: Ok(maps), or Err, which ends the cycle
SyncList(ok) ==
    /\ sync.pc = "apply"
    /\ PullDone(sync.updates)
    /\ sync' = IF ok THEN [sync EXCEPT !.pc = "push", !.maps = Some(list_maps(registry))]
               ELSE [sync EXCEPT !.pc = "tick", !.failed = @ \cup {"list"}]
    /\ SyncOnly

\* sync_registry(maps) returns: Ok, or Err, which is logged
SyncPush(ok) ==
    /\ sync.pc = "push"
    /\ sync' = IF ok THEN [sync EXCEPT !.pc = "tick"]
               ELSE [sync EXCEPT !.pc = "tick", !.failed = @ \cup {"push"}]
    /\ SyncOnly

NextSync ==
    \/ SyncTick
    \/ \E ok \in BOOLEAN, updates \in UpdateLists : SyncFetch(ok, updates)
    \/ SyncApply
    \/ \E ok \in BOOLEAN : SyncList(ok)
    \/ \E ok \in BOOLEAN : SyncPush(ok)
    \/ \E env \in PlainEnvs([url |-> UrlVpk, body |-> VpkA]) : InstallFromUrl(UrlVpk, None, env)
    \/ \E id \in KnownIds : UninstallMap(id)
    \/ TakeResult

\* the sync task and the HTTP handlers
SpecSync == Init /\ [][NextSync]_vars

\* sync_task.abort() (line 195): the task is cancelled at whichever await it
\* is parked on
SyncAbort ==
    /\ sync.pc # "aborted"
    /\ sync' = [sync EXCEPT !.pc = "aborted"]
    /\ SyncOnly

\* the empty list and the lists of one update
ShortLists == {<<>>} \cup {<<update>> : update \in Updates}

\* the steps of the loop body
SyncStep ==
    \/ SyncTick
    \/ \E ok \in BOOLEAN, updates \in ShortLists : SyncFetch(ok, updates)
    \/ SyncApply
    \/ \E ok \in BOOLEAN : SyncList(ok)
    \/ \E ok \in BOOLEAN : SyncPush(ok)

\* the steps of the loop body around the rounds of the for loop
SyncAwait ==
    \/ SyncTick
    \/ \E ok \in BOOLEAN, updates \in ShortLists : SyncFetch(ok, updates)
    \/ \E ok \in BOOLEAN : SyncList(ok)
    \/ \E ok \in BOOLEAN : SyncPush(ok)

\* what a round of the for loop does to the sync task's own record, whatever
\* installer call it made: the step SyncApply seen from the task
SyncRound ==
    /\ sync.pc = "apply"
    /\ ~PullDone(sync.updates)
    /\ \E fn \in {"none", "install_from_workshop_id", "install_from_url", "uninstall_map"},
          ok \in BOOLEAN,
          arg \in [workshop_id : {None} \cup {Some(w) : w \in WorkshopIds},
                   source_url : {None, Some(UrlVpk), Some(UrlBare)},
                   map_id : {None, Some(BackendMapId)}] :
          sync' = [sync EXCEPT !.updates = AfterRound(sync.updates, ok),
                               !.applied = sync.applied + 1,
                               !.calls = Append(@, [update |-> Head(sync.updates), fn |-> fn,
                                                    arg |-> arg, ok |-> ok]),
                               !.failed = IF ok THEN @ ELSE @ \cup {"update"}]

NextSyncLoop ==
    \/ SyncStep
    \/ SyncAbort

\* the sync task alone, until it is aborted. Each await of the loop returns
\* once started: the interval fires, the backend client times out after 30 s,
\* the downloads after 300 s, and the installer calls have no loop of their
\* own, so a step of the loop that can be taken is eventually taken
SpecSyncLoop ==
    Init /\ [][NextSyncLoop]_vars /\ WF_vars(SyncAwait) /\ WF_sync(SyncRound)

(***************************************************************************)
(* The claims.  last is the call that has just returned; in an action      *)
(* formula last' is the call the step makes and the unprimed variables are *)
(* the state it started from.                                              *)
(***************************************************************************)
InstallOps == {"install_from_url", "install_from_workshop_id"}

\* a failed install call is the step taken
InstallFailed == last'.op \in InstallOps /\ ~last'.ok

\* C1: a failed install_from_url or install_from_workshop_id call, whatever
\* step failed, leaves the registry and the files of the add-ons directory
\* as they were before the call.
C1_FailedInstallChangesNothing ==
    [][InstallFailed => registry' = registry /\ addons' = addons]_vars

\* C2: in every reachable state of installs, watcher detections and
\* uninstalls, no two registry entries have the same name.
C2_NamesUnique ==
    \A e1 \in list_maps(registry), e2 \in list_maps(registry) :
        e1.name = e2.name => e1.id = e2.id

\* the name a caller provided sanitizes to the name of a stored row
ProvidedNameStored(reg, name) ==
    /\ IsSome(name)
    /\ sanitize_map_name(Unwrap(name)).ok
    /\ \E id \in DOMAIN reg : reg[id].name = sanitize_map_name(Unwrap(name)).v

\* C3: an install call with a display name whose sanitized form is the name
\* of an existing entry fails without having sent any HTTP or Steam request,
\* and leaves the registry and the add-ons directory unchanged.
C3_ProvidedNameConflictRejectedEarly ==
    [][(last'.op \in InstallOps /\ ProvidedNameStored(registry, last'.name))
         => /\ ~last'.ok
            /\ last'.http = 0
            /\ last'.steam = 0
            /\ registry' = registry
            /\ addons' = addons]_vars

\* an install call with the display name "A" was rejected while an entry
\* named "a" is installed
C3_Witness ==
    /\ last.op \in InstallOps
    /\ ~last.ok
    /\ last.step = "name_conflict"
    /\ ProvidedNameStored(registry, last.name)
    /\ Unwrap(last.name) = <<"A">>

\* C4: an install call without a display name never ends with a new entry
\* whose name (derived from addonTitle) an existing entry already has.
C4_DerivedNameConflictRejected ==
    [][(last'.op \in InstallOps /\ last'.name = None /\ last'.ok)
         => \A id \in DOMAIN registry : registry[id].name # Unwrap(last'.entry).name]_vars

\* C5: when an install call has returned, none of the scratch names it
\* created (the downloaded archive, its extract-<id> directory) is left.
C5_ScratchRemoved ==
    last.op \in InstallOps => last.created \cap temp = {}

\* C6: when an install call has returned the entry e, the registry holds e,
\* e.installed_path is a regular file of the add-ons directory whose name
\* ends in ".vpk", and e.checksum, when present, is the digest of that file.
C6_InstalledEntryHasFile ==
    (last.op \in InstallOps /\ last.ok) =>
        LET e == Unwrap(last.entry)
        IN /\ e.id \in DOMAIN registry
           /\ get_map(registry, e.id) = Some(e)
           /\ IsFile(addons, e.installed_path)
           /\ ~IsDir(addons, e.installed_path)
           /\ EndsWith(e.installed_path, DotVpk)
           /\ IsSome(e.checksum) => Unwrap(e.checksum).md5hex = addons[e.installed_path]

\* an install of the extension-less URL has returned an entry with a digest
C6_Witness ==
    /\ last.op \in InstallOps
    /\ last.ok
    /\ IsSome(Unwrap(last.entry).checksum)
    /\ last.created = {<<"1", "-", "m">>}
    /\ Unwrap(last.entry).installed_path = <<"1", "-", "m", ".", "v", "p", "k">>

\* C7: the id of an entry add_map stores is new: it was never the id of a
\* stored entry before, removed or not (as it is when the registry hands out
\* ids in strictly increasing order).
C7_IdsNeverReused ==
    [][(last'.op = "add_map" /\ last'.ok) => Unwrap(last'.id) \notin assigned]_vars

\* C8: whatever add_map and update_map were given and whatever rows are
\* stored, every entry get_map or list_maps returns with a source_kind other
\* than Workshop has no workshop_id.
C8_NonWorkshopHasNoWorkshopId ==
    /\ \A e \in list_maps(registry) : e.source_kind # "Workshop" => e.workshop_id = None
    /\ \A id \in DOMAIN registry :
          LET e == Unwrap(get_map(registry, id))
          IN e.source_kind # "Workshop" => e.workshop_id = None

\* add_map has stored an entry of kind Other given with a workshop_id, beside
\* a stored row of an unknown source_kind that has one
C8_Witness ==
    /\ last.op = "add_map"
    /\ last.ok
    /\ Unwrap(last.entry).source_kind = "Other"
    /\ IsSome(Unwrap(last.entry).workshop_id)
    /\ Unwrap(last.id) \in DOMAIN registry
    /\ \E id \in DOMAIN registry :
          registry[id].source_kind = "legacy" /\ IsSome(registry[id].workshop_id)

\* a relative path without a ".." component
RelativeNoParent(path) ==
    /\ ~IsAbsolute(path)
    /\ \A i \in 1..Len(Components(path)) : Components(path)[i] # ParentDir

C10_ChecksumAndKindTogether ==
    /\ \A e \in list_maps(registry) :
          \/ e.checksum = None /\ e.checksum_kind = None
          \/ IsSome(e.checksum) /\ e.checksum_kind = Some("md5")
    /\ (last.op \in InstallOps \cup {"detect_map_from_path"} /\ IsSome(last.entry)) =>
          LET e == Unwrap(last.entry)
          IN \/ e.checksum = None /\ e.checksum_kind = None
             \/ IsSome(e.checksum) /\ e.checksum_kind = Some("md5")

\* the watcher has added an entry whose digest could not be computed, beside
\* an installed entry that has one
C10_Witness ==
    /\ last.op = "detect_map_from_path"
    /\ last.ok
    /\ IsSome(last.entry)
    /\ Unwrap(last.entry).id = uuid
    /\ Unwrap(last.entry).checksum = None
    /\ \E e \in list_maps(registry) : IsSome(e.checksum)

\* C11: however many workshop installs run concurrently, the Steam session
\* initializer runs to completion at most once, and every caller that
\* get_steam_connection has answered saw the result of that one run.
C11_InitializerCompletesOnce ==
    /\ Len(init_runs) <= 1
    /\ \A t \in Tasks : task[t].pc = "done" =>
          /\ init_runs = <<task[t].seen>>
          /\ steam_connection = task[t].seen

\* the initializer was started twice (its first caller was dropped), it
\* completed once, and a caller that never ran it has its result
C11_Witness ==
    /\ Len(init_runs) = 1
    /\ \E t1 \in Tasks, t2 \in Tasks, t3 \in Tasks :
          /\ task[t1].pc = "dropped" /\ task[t1].ran
          /\ task[t2].pc = "done" /\ task[t2].ran
          /\ task[t3].pc = "done" /\ ~task[t3].ran /\ task[t3].seen = init_runs[1]

\* a workshop install that asked for the Steam session is the step taken
AsksForSession ==
    /\ last'.op = "install_from_workshop_id"
    /\ last'.log # <<>>

\* the requests of the call that has just returned, by name
Requests(call) == {call.log[i].req : i \in 1..Len(call.log)}

\* C12: once the Steam session initializer has failed the cell stays failed;
\* every later workshop install that asks for the session gets the cached
\* connection error, and makes no discovery, connect, GetDetails,
\* GetUGCDetails or HTTP request.
C12_FailedSessionIsSticky ==
    [][steam_connection = "failed" =>
         /\ steam_connection' = "failed"
         /\ AsksForSession =>
              /\ ~last'.ok
              /\ last'.error = Some(SteamErr("Connection", None))
              /\ Requests(last') = {"get_steam_connection"}
              /\ last'.steam = 0
              /\ last'.http = 0
              /\ registry' = registry
              /\ addons' = addons]_vars

\* a workshop install has been answered from a cell that had failed before
\* the call: it made no request
C12_Witness ==
    /\ steam_connection = "failed"
    /\ last.op = "install_from_workshop_id"
    /\ last.error = Some(SteamErr("Connection", None))
    /\ last.steam = 0
    /\ last.log = <<[req |-> "get_steam_connection"]>>

\* the response the call got to the request named, None when it did not
\* send it
ResponseTo(call, req) ==
    LET hits == SelectSeq(call.log, LAMBDA r : r.req = req)
    IN IF hits = <<>> THEN None ELSE Some(hits[1].resp)

\* a GetDetails response with an item that has a content handle
GoodDetails(d) == d.net /\ d.details # <<>> /\ d.details[1] # 0

\* a GetUGCDetails response with eresult 1 and a URL
GoodUgc(u) == u.net /\ u.eresult = 1 /\ u.url # None /\ Unwrap(u.url) # EmptyUrl

\* C13: a workshop install stops at the first failing step of the
\* resolution with that step's error: an empty details list or hcontent 0
\* gives WorkshopIdNotFound and GetUGCDetails is not sent; an eresult other
\* than 1 gives DownloadUrlFailed(eresult) whatever the URL; eresult 1 with a
\* missing or empty URL gives NoDownloadUrl; a transport error in either
\* request gives Network; an HTTP request is made only after two good
\* responses.
C13_WorkshopErrorMapping ==
    [][last'.op = "install_from_workshop_id" =>
         LET details == ResponseTo(last', "GetDetails")
             ugc == ResponseTo(last', "GetUGCDetails")
             d == Unwrap(details)
             u == Unwrap(ugc)
         IN /\ (IsSome(details) /\ ~d.net) =>
                  /\ last'.error = Some(SteamErr("Network", None))
                  /\ ugc = None
            /\ (IsSome(details) /\ d.net /\ (d.details = <<>> \/ d.details[1] = 0)) =>
                  /\ \E w \in WorkshopIds :
                        last'.error = Some(SteamErr("WorkshopIdNotFound", Some(w)))
                  /\ ugc = None
            /\ IsSome(ugc) => IsSome(details) /\ GoodDetails(d)
            /\ (IsSome(ugc) /\ ~u.net) => last'.error = Some(SteamErr("Network", None))
            /\ (IsSome(ugc) /\ u.net /\ u.eresult # 1) =>
                  last'.error = Some(SteamErr("DownloadUrlFailed", Some(u.eresult)))
            /\ (IsSome(ugc) /\ u.net /\ u.eresult = 1
                  /\ (u.url = None \/ Unwrap(u.url) = EmptyUrl)) =>
                  last'.error = Some(SteamErr("NoDownloadUrl", None))
            /\ IsSome(last'.error) => ~last'.ok /\ last'.http = 0
            /\ last'.http > 0 =>
                  IsSome(details) /\ GoodDetails(d) /\ IsSome(ugc) /\ GoodUgc(u)]_vars

\* a workshop install has failed with DownloadUrlFailed on a response that
\* had neither eresult 1 nor a URL
C13_Witness ==
    /\ last.op = "install_from_workshop_id"
    /\ last.error = Some(SteamErr("DownloadUrlFailed", Some(2)))
    /\ Unwrap(ResponseTo(last, "GetUGCDetails")).url = None
    /\ last.http = 0

\* C14: when install_from_workshop_id(w) has succeeded, for a VPK as for a
\* ZIP payload, the entry it returned and stored has source_kind Workshop,
\* workshop_id w and source_url "workshop:<w>".
C14_WorkshopEntryFields ==
    (last.op = "install_from_workshop_id" /\ last.ok) =>
        LET e == Unwrap(last.entry)
        IN /\ get_map(registry, e.id) = Some(e)
           /\ e.source_kind = "Workshop"
           /\ \E w \in WorkshopIds :
                 /\ e.workshop_id = Some(w)
                 /\ e.source_url = [scheme |-> "workshop:", rest |-> DecimalText(w)]

\* an uninstall_map call for an id the registry does not hold is the step
\* taken
UninstallUnknown ==
    /\ last'.op = "uninstall_map"
    /\ get_map(registry, Unwrap(last'.id)) = None

C16_UninstallIdempotent ==
    [][UninstallUnknown =>
         /\ last'.ok
         /\ registry' = registry
         /\ addons' = addons]_vars

\* the path uninstall_map builds for the entry stored under id
InstalledPathAbs(id) == PathJoin(AddonsDir, registry[id].installed_path)

\* uninstall_map is called for a stored entry whose path has no ".."
\* component and names nothing that exists
UninstallAbsentFile ==
    /\ last'.op = "uninstall_map"
    /\ Unwrap(last'.id) \in DOMAIN registry
    /\ LET installed_path_abs == InstalledPathAbs(Unwrap(last'.id))
       IN /\ \A i \in 1..Len(Components(installed_path_abs)) :
                Components(installed_path_abs)[i] # ParentDir
          /\ ~PathExists(addons, outside, installed_path_abs)

\* C17: uninstall_map for a stored entry whose installed file is already
\* absent (its path being one the containment check accepts) returns
\* success, removes the entry, so that get_map(id) then returns None, and
\* touches no file.
C17_UninstallWithoutFile ==
    [][UninstallAbsentFile =>
         /\ last'.ok
         /\ get_map(registry', Unwrap(last'.id)) = None
         /\ \A other \in DOMAIN registry \ {Unwrap(last'.id)} :
               get_map(registry', other) = get_map(registry, other)
         /\ addons' = addons
         /\ outside' = outside]_vars

\* uninstall_map has removed an entry whose file was not there, beside
\* another entry that stays
C17_Witness ==
    /\ last.op = "uninstall_map"
    /\ last.ok
    /\ last.step = "file_absent"
    /\ Unwrap(last.id) \in assigned \ DOMAIN registry
    /\ ~IsAbsolute(Unwrap(last.entry).installed_path)
    /\ registry # <<>>

\* C18: whatever installed_path is stored (relative, absolute, with ".."),
\* uninstall_map deletes nothing outside the add-ons directory, and when the
\* containment check fails it returns an error having removed no file and
\* no registry entry.
C18_UninstallStaysInside ==
    [][last'.op = "uninstall_map" =>
         /\ outside' = outside
         /\ (/\ Unwrap(last'.id) \in DOMAIN registry
             /\ ~validate_path_within_base_new(addons, outside,
                    InstalledPathAbs(Unwrap(last'.id)), AddonsDir)) =>
               /\ ~last'.ok
               /\ last'.step = "containment"
               /\ registry' = registry
               /\ addons' = addons]_vars

\* uninstall_map has refused an entry whose installed_path is the absolute
\* path of a file that exists outside the add-ons directory
C18_Witness ==
    /\ last.op = "uninstall_map"
    /\ ~last.ok
    /\ last.step = "containment"
    /\ Unwrap(last.id) \in DOMAIN registry
    /\ registry[Unwrap(last.id)].installed_path = T_outside_vpk
    /\ T_outside_vpk \in DOMAIN outside

\* uninstall_map has refused an entry whose installed_path starts with ".."
C18_WitnessParent ==
    /\ last.op = "uninstall_map"
    /\ last.step = "containment"
    /\ registry[Unwrap(last.id)].installed_path = T_up_m_vpk

\* an attempt that met a 2xx response and wrote it
Met2xx(outcome) == outcome.send /\ outcome.status \in 200..299 /\ outcome.rest = "written"

\* C19: download_with_retry makes its attempts one after another; a call
\* that returned success made its last attempt successfully and none after
\* it; a call that returned an error made exactly 3 attempts, all failed,
\* and returns the error of the third; there is never a 4th attempt; an
\* attempt that meets a non-2xx status or a transport error is a failed
\* one.
C19_RetryAttempts ==
    LET n == Len(retry.requests)
    IN /\ n <= 3
       /\ \A i \in 1..(n - 1) : ~Met2xx(retry.requests[i])
       /\ retry.pc # "returned" => \A i \in 1..n : ~Met2xx(retry.requests[i])
       /\ retry.pc = "returned" =>
            /\ IsSome(retry.result)
            /\ Unwrap(retry.result).ok <=> Met2xx(retry.requests[n])
            /\ ~Unwrap(retry.result).ok =>
                  /\ n = 3
                  /\ Unwrap(retry.result).error = Some(retry.requests[3])

\* the loop of download_with_retry: at most max_retries attempts, one at a
\* time, each but the last one a failed download_once, with a sleep of 2 and
\* then 4 seconds between them; Err only after max_retries failures, with
\* the error of the last
RetryLoopBounded ==
    LET n == Len(retry.requests)
    IN /\ n <= max_retries
       /\ \A i \in 1..(n - 1) : ~download_once(retry.requests[i])
       /\ \A i \in 1..Len(retry.slept) : retry.slept[i] = Pow2(i)
       /\ retry.pc = "returned" =>
            /\ Unwrap(retry.result).ok <=> download_once(retry.requests[n])
            /\ ~Unwrap(retry.result).ok =>
                  /\ n = max_retries
                  /\ Len(retry.slept) = max_retries - 1
                  /\ Unwrap(retry.result).error = Some(retry.requests[n])

\* the sync task lists the registry for the push: the step taken
ListsForPush == sync.pc = "apply" /\ sync'.pc = "push"

\* C20: in every cycle of the sync task every fetched update has been
\* applied when the registry is listed for the push, nothing is listed
\* while updates are applied, and the list pushed is the registry as it is
\* after those updates.
C20_PullBeforePush ==
    [][/\ ListsForPush =>
            /\ sync.updates = <<>>
            /\ sync.applied = sync.total
            /\ sync'.maps = Some(list_maps(registry))
       /\ sync'.pc = "apply" => sync'.maps = None
       /\ (sync.pc = "push" /\ sync'.pc = "tick") =>
            sync.applied = sync.total /\ IsSome(sync.maps)]_vars

\* the sync task has applied two updates and is about to push a list holding
\* a workshop map, which only an update installs here
C20_Witness ==
    /\ sync.pc = "push"
    /\ sync.total = 2
    /\ sync.applied = 2
    /\ \E e \in Unwrap(sync.maps) : e.source_kind = "Workshop"
    /\ Unwrap(sync.maps) = list_maps(registry)


(***************************************************************************)
(* The URL validator and install_from_url over URL texts of every kind.    *)
(***************************************************************************)
\* validate_url(url_str) is called
ValidateUrl(url) ==
    /\ last = NoCall
    /\ last' = [NoCall EXCEPT !.op = "validate_url", !.ok = validate_url(url), !.url = Some(url)]
    /\ UNCHANGED <<registry, addons, outside, temp, uuid, steam_connection, assigned, stepVars>>

\* install_from_url(url, None) is called; the server, when asked, sends a VPK
InstallUrlText(url) ==
    /\ last = NoCall
    /\ install_from_url(CallState, url, None, SyncEnv(url)).st.uuid <= MaxUuid
    /\ ReturnsAt("install_from_url", None, None, None, Some(url),
                 install_from_url(CallState, url, None, SyncEnv(url)))
    /\ UNCHANGED steam_connection

\* https://m.io/M.VPK
UrlUpper == [scheme |-> "https", host |-> PublicHost, last |-> <<"M", ".", "V", "P", "K">>]

\* downloads by the extension of the URL's last segment (vpk, VPK, zip, none,
\* txt) and by what the server sends (a VPK, a ZIP with a VPK, a ZIP with
\* readme text only, junk)
TypedRemotes ==
    {[url |-> UrlVpk, body |-> VpkA], [url |-> UrlVpk, body |-> Junk],
     [url |-> UrlUpper, body |-> VpkA],
     [url |-> UrlZip, body |-> ZipA], [url |-> UrlZip, body |-> VpkA],
     [url |-> UrlZip, body |-> ZipNoVpk],
     [url |-> UrlBare, body |-> VpkB], [url |-> UrlBare, body |-> Junk],
     [url |-> UrlBare, body |-> ZipA],
     [url |-> UrlTxt, body |-> VpkA], [url |-> UrlTxt, body |-> Junk]}

\* the download of the model's installs of typed files
TypedEnv(remote) ==
    [first_ok |-> 1, body |-> remote.body, fault |-> "none", pick |-> 1, steam |-> "ok",
     signed_url |-> remote.url]

\* install_from_url(url, None) is called and the server sends remote.body
InstallRemote(remote) ==
    /\ last = NoCall
    /\ install_from_url(CallState, remote.url, None, TypedEnv(remote)).st.uuid <= MaxUuid
    /\ ReturnsWith("install_from_url", None, None, None, Some(remote.url), Some(remote.body),
                   install_from_url(CallState, remote.url, None, TypedEnv(remote)))
    /\ UNCHANGED steam_connection

NextUrl ==
    \/ \E url \in UrlTexts : ValidateUrl(url)
    \/ \E url \in UrlTexts : InstallUrlText(url)
    \/ \E remote \in TypedRemotes : InstallRemote(remote)
    \/ \E id \in KnownIds : UninstallMap(id)
    \/ TakeResult

\* the validator and the URL install handler over the URL texts
SpecUrl == Init /\ [][NextUrl]_vars

(***************************************************************************)
(* One install of a downloaded VPK file, await by await (install_vpk_file, *)
(* service.rs 150-235), beside the watcher task and the shutdown of main.  *)
(***************************************************************************)
\* what the steps of the install leave alone
InstOnly == UNCHANGED <<outside, steam_connection, last, task, init_runs, retry, sync, chan>>

\* install_from_url up to the copy (service.rs 40-65, 112-119, 157-190): the
\* download, the metadata, the names, the fresh id, and fs::copy into the
\* add-ons directory, which makes the watcher see a Create event
InstCopy(remote) ==
    LET dl == Download(CallState, download_zip_filename(remote.url),
                       CHOOSE env \in PlainEnvs(remote) : env.fault = "none")
        vpk_filename == VpkFilename(dl.path)
        metadata == extract_vpk_metadata(remote.body)
        map_name == sanitize_map_name(metadata.title)
        map_id == dl.st.uuid + 1
    IN /\ inst.pc = "idle"
       /\ last = NoCall
       /\ map_id <= MaxUuid
       /\ validate_url(remote.url)
       /\ dl.ok /\ metadata.ok /\ map_name.ok
       /\ ~IsDir(addons, vpk_filename)
       /\ temp' = dl.st.temp
       /\ uuid' = map_id
       /\ addons' = PutFile(addons, vpk_filename, remote.body)
       /\ inst' = [pc |-> "copied", vpk_path |-> dl.path, vpk_filename |-> vpk_filename,
                   map_entry |-> Some([id |-> map_id,
                                       name |-> map_name.v,
                                       source_url |-> [scheme |-> "file:", rest |-> vpk_filename],
                                       source_kind |-> "Other",
                                       workshop_id |-> None,
                                       installed_path |-> vpk_filename,
                                       version |-> Some(metadata.version),
                                       checksum |-> None,
                                       checksum_kind |-> None]),
                   event |-> "pending"]
       /\ UNCHANGED <<registry, assigned>>
       /\ InstOnly

\* calculate_file_md5(&install_path).await.ok() (lines 193-194)
InstHash(ok) ==
    /\ inst.pc = "copied"
    /\ inst' = IF ok /\ IsFile(addons, inst.vpk_filename)
               THEN [inst EXCEPT !.pc = "hashed",
                                 !.map_entry = Some([Unwrap(@) EXCEPT
                                     !.checksum = Some(calculate_file_md5(addons[inst.vpk_filename])),
                                     !.checksum_kind = Some("md5")])]
               ELSE [inst EXCEPT !.pc = "hashed"]
    /\ UNCHANGED <<registry, addons, temp, uuid, assigned>>
    /\ InstOnly

\* registry.add_map(map_entry).await and its error arm (lines 223-227)
InstAddMap(dbError) ==
    LET ins == add_map(registry, Unwrap(inst.map_entry), dbError)
    IN /\ inst.pc = "hashed"
       /\ registry' = ins.registry
       /\ assigned' = assigned \cup DOMAIN ins.registry
       /\ addons' = IF ins.ok THEN addons ELSE RemoveFile(addons, inst.vpk_filename)
       /\ inst' = [inst EXCEPT !.pc = IF ins.ok THEN "registered" ELSE "failed"]
       /\ UNCHANGED <<temp, uuid>>
       /\ InstOnly

\* remove_file(&vpk_path).await and Ok(map_entry) (lines 230-234)
InstCleanup ==
    /\ inst.pc = "registered"
    /\ temp' = temp \ {inst.vpk_path}
    /\ inst' = [inst EXCEPT !.pc = "done"]
    /\ UNCHANGED <<registry, addons, uuid, assigned>>
    /\ InstOnly

\* the task running the install is aborted while the install is parked on
\* the await of the hash, of add_map or of the cleanup (main.rs 194-196)
InstAbort ==
    /\ inst.pc \in {"copied", "hashed", "registered"}
    /\ inst' = [inst EXCEPT !.pc = "aborted"]
    /\ UNCHANGED <<registry, addons, temp, uuid, assigned>>
    /\ InstOnly

\* the state a detection leaves
Detected(out) ==
    /\ out.st.uuid <= MaxUuid
    /\ registry' = out.st.registry
    /\ uuid' = out.st.uuid
    /\ assigned' = assigned \cup DOMAIN out.st.registry

\* the watcher task takes the Create event of the placed file and calls
\* detect_map_from_path (main.rs 76-81)
InstWatcherCreate ==
    /\ inst.event = "pending"
    /\ inst.pc # "aborted"
    /\ Detected(detect_map_from_path(CallState, PathJoin(AddonsDir, inst.vpk_filename), "none"))
    /\ inst' = [inst EXCEPT !.event = "processed"]
    /\ UNCHANGED <<addons, temp>>
    /\ InstOnly

\* the caller takes the result of a finished install; the next may start
InstReturn ==
    /\ inst.pc \in {"done", "failed"}
    /\ inst.event # "pending"
    /\ inst' = InstIdle
    /\ UNCHANGED <<registry, addons, temp, uuid, assigned>>
    /\ InstOnly

NextInst ==
    \/ \E remote \in {r \in PlainRemotes : r.body.t = "vpk"} : InstCopy(remote)
    \/ \E ok \in BOOLEAN : InstHash(ok)
    \/ \E dbError \in BOOLEAN : InstAddMap(dbError)
    \/ InstCleanup
    \/ InstAbort
    \/ InstWatcherCreate
    \/ InstReturn
    \/ \E id \in KnownIds : UninstallMap(id)
    \/ TakeResult

\* an install in steps, the watcher task, the uninstall handler and shutdown
SpecInst == Init /\ [][NextInst]_vars

(***************************************************************************)
(* src/watcher/inotify.rs: the channel between notify's callback           *)
(* (handle_static_event, the producer) and the watcher task of main.rs     *)
(* (receiver.recv(), the consumer).  An event of the model is the ordinal  *)
(* n of the try_send call that offered it; its kind is KindOf(n).          *)
(***************************************************************************)
\* mpsc::channel(1024)
ChannelCapacity == 1024

\* try_send calls made beyond the capacity of the channel
MaxBurst == 2

\* events the consumer takes
MaxReceived == 3

\* the notify event kinds that handle_static_event forwards, and one it skips
ForwardedKinds == <<"Create", "Remove", "Modify">>
EventKinds == {"Create", "Remove", "Modify", "Access"}

\* the kind of the n-th forwarded event
KindOf(n) == ForwardedKinds[(n % 3) + 1]

\* a variant of try_send that makes room by discarding the oldest event
try_send_overwriting(ch, message) ==
    IF ch.closed THEN [ok |-> FALSE, err |-> "Closed", queue |-> ch.queue]
    ELSE IF Len(ch.queue) >= ChannelCapacity
    THEN [ok |-> TRUE, err |-> "none", queue |-> Append(Tail(ch.queue), message)]
    ELSE [ok |-> TRUE, err |-> "none", queue |-> Append(ch.queue, message)]

\* tokio::sync::mpsc::Sender::try_send: never waits; Err(Closed) when the
\* receiver is gone, Err(Full) when no permit is free
try_send(ch, message) ==
    IF ch.closed THEN [ok |-> FALSE, err |-> "Closed", queue |-> ch.queue]
    ELSE IF Len(ch.queue) >= ChannelCapacity
    THEN [ok |-> FALSE, err |-> "Full", queue |-> ch.queue]
    ELSE [ok |-> TRUE, err |-> "none", queue |-> Append(ch.queue, message)]

\* what the channel steps leave alone
ChanOnly == UNCHANGED <<registry, addons, outside, temp, uuid, steam_connection, assigned, last, task, init_runs, retry, sync, inst>>

\* the state handle_static_event leaves after try_send returned r for the
\* event of ordinal n: an event refused for a full channel is dropped
Offered(n, r) ==
    chan' = [chan EXCEPT !.queue = r.queue,
                         !.sent = n,
                         !.dropped = IF r.err = "Full" THEN @ \cup {n} ELSE @]

\* handle_static_event for one path of an event of the given kind
HandleStaticEvent(kind) ==
    /\ IF kind \in {"Create", "Remove", "Modify"}
       THEN /\ chan.sent < ChannelCapacity + MaxBurst
            /\ kind = KindOf(chan.sent + 1)
            /\ Offered(chan.sent + 1, try_send(chan, chan.sent + 1))
       ELSE /\ chan.skipped < 1
            /\ chan' = [chan EXCEPT !.skipped = @ + 1]
    /\ ChanOnly

\* receiver.recv().await in the watcher task returns the oldest event
Recv ==
    /\ ~chan.closed
    /\ chan.queue # <<>>
    /\ Len(chan.received) < MaxReceived
    /\ chan' = [chan EXCEPT !.queue = Tail(@), !.received = Append(@, Head(chan.queue))]
    /\ ChanOnly

\* watcher_task.abort() (main.rs 194): the receiver is dropped, which closes
\* the channel and discards what is queued
WatcherAbort ==
    /\ ~chan.closed
    /\ chan' = [chan EXCEPT !.closed = TRUE, !.queue = <<>>]
    /\ ChanOnly

NextChannel ==
    \/ \E kind \in EventKinds : HandleStaticEvent(kind)
    \/ Recv
    \/ WatcherAbort

\* the producer callback and the watcher task on the two ends of the channel
SpecChannel == Init /\ [][NextChannel]_vars

(***************************************************************************)
(* src/downloader/workshop.rs, step 3 of download_workshop_item: the       *)
(* scratch file name derived from the signed URL, a text.                  *)
(***************************************************************************)
\* the longest text after "https://h/" in the signed URLs of the model
MaxTail == 4

\* https://h/
SignedUrlPrefix == <<"h", "t", "t", "p", "s", ":", "/", "/", "h", "/">>

\* the signed URLs Steam may hand out: https://h/ followed by path
\* separators, query marks and letters
SignedUrls ==
    {SignedUrlPrefix \o tail : tail \in UNION {[1..n -> {"/", "?", "m"}] : n \in 0..MaxTail}}

\* Iterator::last of str::split('/')
LastSegment(text) == Split(text, "/")[Len(Split(text, "/"))]

\* download_url.split('/').last().unwrap_or(..).split('?').next().unwrap_or(..):
\* both iterators give at least one item, so neither default is ever taken
workshop_filename(download_url) == Split(LastSegment(download_url), "?")[1]

\* download_workshop_item from the signed URL to output_path (lines 56-65)
WorkshopOutputPath(download_url) ==
    /\ last = NoCall
    /\ uuid < MaxUuid
    /\ uuid' = uuid + 1
    /\ last' = [NoCall EXCEPT !.op = "download_workshop_item",
                              !.url = Some(download_url),
                              !.path = Some(DownloadPath(uuid + 1, workshop_filename(download_url)))]
    /\ UNCHANGED <<registry, addons, outside, temp, steam_connection, assigned, stepVars>>

NextWorkshopName ==
    \/ \E download_url \in SignedUrls : WorkshopOutputPath(download_url)
    \/ TakeResult

\* the scratch file names of workshop downloads
SpecWorkshopName == Init /\ [][NextWorkshopName]_vars

\* the updates of the first n rounds of this cycle
Attempted(n) == [i \in 1..n |-> sync.calls[i].update]

\* C21: within one cycle the rounds of the for loop visit the fetched list in
\* order, one round per update: the rounds made so far are a prefix of the
\* list, the updates still to visit are the rest of it, and once the loop is
\* left every update of the list has had exactly one round, whatever the
\* rounds before it returned.
C21_EveryUpdateAttempted ==
    /\ Len(sync.calls) <= Len(sync.fetched)
    /\ Attempted(Len(sync.calls)) = SubSeq(sync.fetched, 1, Len(sync.calls))
    /\ sync.updates = SubSeq(sync.fetched, Len(sync.calls) + 1, Len(sync.fetched))
    /\ sync.pc \in {"push", "tick"} => Len(sync.calls) = Len(sync.fetched)

\* a cycle whose first update failed and whose second was installed
C21_Witness ==
    /\ sync.pc = "push"
    /\ Len(sync.fetched) = 2
    /\ Len(sync.calls) = 2
    /\ ~sync.calls[1].ok
    /\ sync.calls[2].ok
    /\ sync.calls[2].fn = "install_from_url"

\* a cycle that has lost the loop: some step of it failed
CycleFailed == sync.failed # {}

C23_UpdateRouting ==
    [][sync.pc = "apply" /\ sync'.applied = sync.applied + 1 =>
        LET update == Head(sync.updates)
            made == sync'.calls[Len(sync'.calls)]
        IN /\ made.update = update
           /\ update.action = "install" /\ IsSome(update.map_entry)
                /\ IsSome(Unwrap(update.map_entry).workshop_id)
                => /\ made.fn = "install_from_workshop_id"
                   /\ made.arg = [NoArg EXCEPT !.workshop_id = Unwrap(update.map_entry).workshop_id]
           /\ update.action = "install" /\ IsSome(update.map_entry)
                /\ Unwrap(update.map_entry).workshop_id = None
                => /\ made.fn = "install_from_url"
                   /\ made.arg = [NoArg EXCEPT !.source_url = Some(Unwrap(update.map_entry).source_url)]
           /\ update.action = "uninstall"
                => /\ made.fn = "uninstall_map"
                   /\ made.arg = [NoArg EXCEPT !.map_id = Some(update.map_id)]
           /\ update.action \notin {"install", "uninstall"}
                => /\ made.fn = "none"
                   /\ registry' = registry
                   /\ addons' = addons]_vars

\* the sync task has installed a workshop map and then met an unknown action
C23_Witness ==
    /\ Len(sync.calls) = 2
    /\ sync.calls[1].fn = "install_from_workshop_id"
    /\ sync.calls[1].ok
    /\ sync.calls[2].update.action = "update"

\* the watcher has just processed a Create event
CreateProcessed == last = NoCall /\ last'.op = "detect_map_from_path"

\* the entries of the registry reg whose installed_path is rel
EntriesAt(reg, rel) == {m \in list_maps(reg) : m.installed_path = rel}

\* path names a file with the extension vpk whose VPK metadata can be read
ValidVpkAt(path) ==
    /\ Extension(path) = Some(<<"v", "p", "k">>)
    /\ PathIsFile(addons, outside, path)
    /\ extract_vpk_metadata(PathContent(addons, outside, path)).ok

\* C24: processing a Create event whose path is a valid VPK file under the
\* add-ons directory that no entry references adds exactly one entry, with
\* source_kind Other, no workshop_id, source_url "detected:" followed by the
\* path, and the path relative to the add-ons directory as installed_path;
\* processing one whose path an entry references, or whose path is outside
\* the add-ons directory, leaves the registry as it was; so after a Create
\* event for a valid file was processed, once or again, exactly one entry
\* references the path.
C24_DetectionIdempotent ==
    [][CreateProcessed =>
        LET path == Unwrap(last'.path)
            stripped == RelativePath(path)
        IN /\ stripped = None => registry' = registry
           /\ IsSome(stripped) /\ EntriesAt(registry, Unwrap(stripped)) # {}
                => registry' = registry
           /\ IsSome(stripped) /\ ValidVpkAt(path) /\ last'.ok
                => Cardinality(EntriesAt(registry', Unwrap(stripped))) = 1
           /\ IsSome(stripped) /\ ValidVpkAt(path) /\ last'.ok
                /\ EntriesAt(registry, Unwrap(stripped)) = {}
                => \E e \in list_maps(registry') :
                      /\ e.id \notin DOMAIN registry
                      /\ list_maps(registry') = list_maps(registry) \cup {e}
                      /\ e.source_kind = "Other"
                      /\ e.workshop_id = None
                      /\ e.source_url = [scheme |-> "detected:", rest |-> path]
                      /\ e.installed_path = Unwrap(stripped)]_vars

\* the Create event of a file the watcher had registered was processed again
C24_Witness ==
    /\ last.op = "detect_map_from_path"
    /\ last.step = "existing"
    /\ last.path = Some(PathJoin(AddonsDir, T_sub_x_vpk))
    /\ Unwrap(last.entry).source_kind = "Other"
    /\ Cardinality(EntriesAt(registry, T_sub_x_vpk)) = 1

\* the watcher has just processed a Remove or a Modify event
RemoveOrModifyProcessed ==
    last = NoCall /\ last'.op \in {"watcher_remove", "watcher_modify"}

\* C25: processing a Remove or a Modify event, whatever its path, leaves the
\* registry as it was.
C25_RemoveModifyKeepRegistry ==
    [][RemoveOrModifyProcessed => registry' = registry]_vars

\* a Remove event was processed for a file that is gone and that an entry
\* still references
C25_Witness ==
    /\ last.op = "watcher_remove"
    /\ \E rel \in ManualPaths \cup {T_m_vpk} :
          /\ last.path = Some(PathJoin(AddonsDir, rel))
          /\ ~IsFile(addons, rel)
          /\ EntriesAt(registry, rel) # {}

\* the install and the watcher's handling of its Create event have finished
BothFinished == inst.pc = "done" /\ inst.event = "processed"

\* C26: once an install and the watcher's processing of the Create event of
\* the file it placed have both finished, exactly one entry of the registry
\* has the placed file as installed_path.
C26_DetectionOfOwnFileNoOp ==
    BothFinished => Cardinality(EntriesAt(registry, inst.vpk_filename)) = 1

\* C27: after an install was aborted, the file it placed in the add-ons
\* directory is referenced by an entry of the registry or is gone.
C27_AbortLeavesNoOrphan ==
    inst.pc = "aborted" /\ IsFile(addons, inst.vpk_filename)
        => EntriesAt(registry, inst.vpk_filename) # {}

\* the address a host text names when it is a literal IP: dotted IPv4, or
\* IPv6 in brackets; gives whether it lies in 127.0.0.0/8, 10.0.0.0/8,
\* 172.16.0.0/12, 192.168.0.0/16, 169.254.0.0/16, ::1, fc00::/7, fe80::/10 or
\* is the IPv4-mapped form of such an IPv4 address
LiteralPrivateIp(host) ==
    \/ IsSome(ParseIpv4(host)) /\ is_private_ipv4(Unwrap(ParseIpv4(host)))
    \/ /\ Len(host) > 2 /\ Head(host) = "[" /\ host[Len(host)] = "]"
       /\ LET v6 == ParseIpv6(SubSeq(host, 2, Len(host) - 1))
          IN IsSome(v6) /\ is_private_ipv6(Unwrap(v6))

\* a URL text of one of the kinds that are to fail validation
ListedInvalid(url) ==
    \/ UrlLen(url) > MAX_URL_LENGTH
    \/ ~UrlParses(url)
    \/ url.scheme \notin {"http", "https"}
    \/ ToLower(url.host) = T_localhost
    \/ LiteralPrivateIp(url.host)

\* install_from_url has just returned for the URL text it was given
UrlInstallReturned == last = NoCall /\ last'.op = "install_from_url" /\ IsSome(last'.url)

\* C28: install_from_url with a URL whose scheme is not http or https, whose
\* host is localhost or a loopback, private or link-local literal IP, which
\* is longer than 2048 characters or which does not parse returns an error,
\* sends no HTTP request and leaves the registry and the add-ons directory
\* as they were.
C28_InvalidUrlIssuesNothing ==
    [][UrlInstallReturned /\ ListedInvalid(Unwrap(last'.url)) =>
          /\ ~last'.ok
          /\ last'.http = 0
          /\ registry' = registry
          /\ addons' = addons]_vars

\* an install whose URL validate_url rejects returns an error, sends no
\* request and changes nothing
RejectedUrlIssuesNothing ==
    [][UrlInstallReturned /\ ~validate_url(Unwrap(last'.url)) =>
          /\ ~last'.ok
          /\ last'.step = "url"
          /\ last'.http = 0
          /\ registry' = registry
          /\ addons' = addons
          /\ temp' = temp]_vars

\* C29: validate_url fails for every URL whose scheme is not http or https
\* and for every URL whose host is a literal IP in 127.0.0.0/8, 10.0.0.0/8,
\* 172.16.0.0/12, 192.168.0.0/16, 169.254.0.0/16, ::1, fc00::/7, fe80::/10 or
\* the IPv4-mapped form of a private IPv4 address, and succeeds for
\* http://8.8.8.8/.
C29_ValidateUrlRanges ==
    last.op = "validate_url" =>
        LET url == Unwrap(last.url)
        IN /\ url.scheme \notin {"http", "https"} => ~last.ok
           /\ LiteralPrivateIp(url.host) => ~last.ok
           /\ url = Url8888 => last.ok

\* what holds of validate_url for the IPv4 literals, the schemes and ::1
ValidateUrlIpv4Ranges ==
    last.op = "validate_url" =>
        LET url == Unwrap(last.url)
        IN /\ url.scheme \notin {"http", "https"} => ~last.ok
           /\ IsSome(ParseIpv4(url.host)) /\ is_private_ipv4(Unwrap(ParseIpv4(url.host)))
                => ~last.ok
           /\ url.host = T_v6_loopback_br => ~last.ok
           /\ url = Url8888 => last.ok

\* install_from_url has just returned for a download of known content
RemoteInstalled == last = NoCall /\ last'.op = "install_from_url" /\ IsSome(last'.body)

\* what the type detection is to do with the downloaded file: the VPK path
\* for the extension vpk in any letter case, the ZIP path for zip, and for
\* any other file the VPK path when its VPK metadata can be read, else the
\* rejection as an unsupported type
TypeDetection(st, file_path, content) ==
    LET ext == Extension(file_path)
        file_ext == IF IsSome(ext) THEN ToLower(Unwrap(ext)) ELSE <<>>
    IN IF file_ext = <<"v", "p", "k">>
       THEN install_vpk_file(st, file_path, content, "Other", None, None, "none")
       ELSE IF file_ext = <<"z", "i", "p">>
       THEN install_zip_file(st, file_path, content, "Other", None, None, "none", 1)
       ELSE IF extract_vpk_metadata(content).ok
       THEN install_vpk_file(st, file_path, content, "Other", None, None, "none")
       ELSE Failed(st, "type")

\* C30: the installer treats a downloaded file by its type: extension vpk in
\* any letter case takes the VPK path, zip the ZIP path, and every other
\* file, without extension or with an unknown one, is probed and installed
\* as a VPK when its VPK metadata can be read, and rejected as an unsupported
\* type otherwise.
C30_TypeDetection ==
    [][RemoteInstalled =>
        LET remote == [url |-> Unwrap(last'.url), body |-> Unwrap(last'.body)]
            dl == Download(CallState, download_zip_filename(remote.url), TypedEnv(remote))
            expected == TypeDetection(dl.st, dl.path, remote.body)
        IN /\ last'.ok = expected.ok
           /\ last'.step = expected.step
           /\ last'.entry = expected.entry
           /\ registry' = expected.st.registry
           /\ addons' = expected.st.addons]_vars

\* what holds: a file with an unknown extension is rejected unprobed
UnknownExtensionRejected ==
    [][RemoteInstalled /\ Unwrap(last'.url) = UrlTxt =>
          /\ ~last'.ok
          /\ last'.step = "type"
          /\ registry' = registry
          /\ addons' = addons]_vars

\* install_from_url has just returned for a downloaded ZIP archive, saved
\* under a name with the extension zip, none of whose entries has a name
\* ending in .vpk in any letter case
ZipWithoutVpkInstalled ==
    /\ RemoteInstalled
    /\ Unwrap(last'.url) = UrlZip
    /\ Unwrap(last'.body).t = "zip"
    /\ \A i \in 1..Len(Unwrap(last'.body).entries) :
          ~EndsWith(ToLower(Unwrap(last'.body).entries[i].name), DotVpk)

\* the scratch names of extraction directories
IsExtractDir(name) == name[1] = "extract-"

\* C31: the install of a ZIP without any .vpk entry returns an error before
\* extraction: it created no extraction directory, placed nothing in the
\* add-ons directory, left the registry as it was, and none of the scratch
\* files it created remains.
C31_ZipWithoutVpkRejected ==
    [][ZipWithoutVpkInstalled =>
          /\ ~last'.ok
          /\ \A name \in last'.created : ~IsExtractDir(name)
          /\ addons' = addons
          /\ registry' = registry
          /\ last'.created \cap temp' = {}]_vars

\* what holds: the ZIP without a .vpk entry is rejected at the pre-check,
\* before an extraction directory exists, and registry and add-ons directory
\* stay as they were; the downloaded archive is what remains
ZipWithoutVpkRejectedBeforeExtraction ==
    [][ZipWithoutVpkInstalled =>
          /\ ~last'.ok
          /\ last'.step = "zip_precheck"
          /\ \A name \in last'.created : ~IsExtractDir(name)
          /\ temp' \ temp = last'.created
          /\ Cardinality(last'.created) = 1
          /\ addons' = addons
          /\ registry' = registry]_vars

\* the fields of an entry the registry is to give back as they were passed
SameFields(e1, e2) ==
    /\ e1.name = e2.name
    /\ e1.source_url = e2.source_url
    /\ e1.source_kind = e2.source_kind
    /\ e1.workshop_id = e2.workshop_id
    /\ e1.installed_path = e2.installed_path
    /\ e1.version = e2.version
    /\ e1.checksum = e2.checksum
    /\ e1.checksum_kind = e2.checksum_kind

\* a call of the registry is the step taken
RegistryStep == last = NoCall /\ last'.op \in {"add_map", "update_map", "remove_map"}

\* what get_map gives for the ids the step was not called for stays as it
\* was, and an add_map that fails leaves every row as it was
OtherIdsKept ==
    /\ \A id \in DOMAIN registry \cup DOMAIN registry' :
          id # Unwrap(last'.id) => get_map(registry', id) = get_map(registry, id)
    /\ (last'.op = "add_map" /\ ~last'.ok) => registry' = registry

\* C32: after add_map(e) has succeeded get_map(e.id) gives an entry equal to
\* e in every field but the timestamp, and no call for another id (and no
\* failed add_map) changes what get_map gives for that id.
C32_RegistryRoundTrip ==
    [][RegistryStep =>
          /\ (last'.op = "add_map" /\ last'.ok) =>
                /\ IsSome(get_map(registry', Unwrap(last'.id)))
                /\ Unwrap(get_map(registry', Unwrap(last'.id))).id = Unwrap(last'.id)
                /\ SameFields(Unwrap(get_map(registry', Unwrap(last'.id))), Unwrap(last'.entry))
          /\ OtherIdsKept]_vars

\* the entry as the registry normalises it: workshop_id is kept only for the
\* source kind Workshop
Normalised(e) ==
    [e EXCEPT !.workshop_id = IF e.source_kind = "Workshop" THEN e.workshop_id ELSE None]

\* C32, amended: get_map gives the entry with workshop_id cleared when its
\* source_kind is not Workshop, and equal to e in every other field.
C32_RegistryRoundTripNormalised ==
    [][RegistryStep =>
          /\ (last'.op = "add_map" /\ last'.ok) =>
                /\ IsSome(get_map(registry', Unwrap(last'.id)))
                /\ Unwrap(get_map(registry', Unwrap(last'.id))).id = Unwrap(last'.id)
                /\ SameFields(Unwrap(get_map(registry', Unwrap(last'.id))),
                              Normalised(Unwrap(last'.entry)))
          /\ OtherIdsKept]_vars

\* add_map has stored an entry with version, checksum and workshop_id beside
\* another stored row, and get_map gives it back
C32_Witness ==
    /\ last.op = "add_map"
    /\ last.ok
    /\ Unwrap(last.entry) \in FullEntries
    /\ get_map(registry, Unwrap(last.id)) = Some(Unwrap(last.entry))
    /\ Cardinality(DOMAIN registry) = 2

\* update_map or remove_map is the step taken, for an id that is not stored
UnknownIdWritten ==
    /\ last = NoCall
    /\ last'.op \in {"update_map", "remove_map"}
    /\ Unwrap(last'.id) \notin DOMAIN registry

\* C33: update_map and remove_map for an id the registry does not hold
\* return success and leave every row as it was: none created, removed or
\* modified.
C33_UnknownIdIsNoOp ==
    [][UnknownIdWritten => last'.ok /\ registry' = registry]_vars

\* update_map has returned for an id that is not stored, beside a stored row
C33_Witness ==
    /\ last.op = "update_map"
    /\ last.ok
    /\ Unwrap(last.id) \notin DOMAIN registry
    /\ registry # <<>>

\* an install call has returned in which the hash of the placed file failed
HashFailedInstall == last = NoCall /\ last'.op \in InstallOps /\ last'.md5 = "err"

\* C34: an install in which hashing the placed file fails still succeeds;
\* the entry it registers has neither checksum nor checksum_kind, and the
\* placed file is in the add-ons directory.
C34_HashFailureNotFatal ==
    [][HashFailedInstall =>
          /\ last'.ok
          /\ Unwrap(last'.entry).checksum = None
          /\ Unwrap(last'.entry).checksum_kind = None
          /\ get_map(registry', Unwrap(last'.entry).id) = last'.entry
          /\ IsFile(addons', Unwrap(last'.entry).installed_path)]_vars

\* an install of a ZIP has returned an entry without checksum after the hash
\* of the placed file failed, and the file is there
C34_Witness ==
    /\ last.op \in InstallOps
    /\ last.md5 = "err"
    /\ last.ok
    /\ Unwrap(last.entry).source_url.scheme = "zip:"
    /\ Unwrap(last.entry).checksum = None
    /\ IsFile(addons, Unwrap(last.entry).installed_path)

\* the ordinals of the events offered so far that were not refused for a
\* full channel, in the order they were sent
AcceptedOrdinals == SelectSeq([i \in 1..chan.sent |-> i], LAMBDA i : i \notin chan.dropped)

\* the events delivered so far followed by those queued
DeliveredThenQueued == chan.received \o chan.queue

\* the producer callback offers an event while the channel is full
OfferedWhenFull ==
    /\ chan'.sent = chan.sent + 1
    /\ ~chan.closed
    /\ Len(chan.queue) = ChannelCapacity

\* C35: the channel never holds more than 1024 events; an event offered to
\* the full channel is dropped while the callback returns (it is never made
\* to wait) and the queue stays as it was; and the events that were not
\* dropped reach the consumer, or wait in the queue, in the order sent.
C35_ChannelBackPressure ==
    /\ [](Len(chan.queue) <= ChannelCapacity)
    /\ [](chan.sent < ChannelCapacity + MaxBurst => ENABLED HandleStaticEvent(KindOf(chan.sent + 1)))
    /\ [][OfferedWhenFull =>
            /\ chan'.queue = chan.queue
            /\ chan'.received = chan.received
            /\ chan'.dropped = chan.dropped \cup {chan'.sent}]_vars
    /\ [](~chan.closed => DeliveredThenQueued = AcceptedOrdinals)

\* an event was dropped for the full channel, the consumer has then taken
\* events, and a later event was queued behind the ones that had waited
C35_Witness ==
    /\ chan.dropped = {ChannelCapacity + 1}
    /\ chan.received # <<>>
    /\ chan.received[1] = 1
    /\ chan.queue # <<>>
    /\ chan.queue[Len(chan.queue)] = ChannelCapacity + 2
    /\ ~chan.closed

\* the output path of a workshop download has just been computed
WorkshopNamed == last = NoCall /\ last'.op = "download_workshop_item"

\* the name the scratch file is to get: the last path segment of the URL
\* without its query string, or "workshop_download" when that is empty
ClaimedWorkshopName(download_url) ==
    LET path == Split(download_url, "?")[1]
        segment == LastSegment(path)
    IN IF segment = <<>> THEN <<"workshop_download">> ELSE segment

\* C36: the scratch file of a workshop download is named
\* "<fresh id>-<name>", name being the last path segment of the signed URL
\* without its query string, and "workshop_download" when that segment is
\* empty.
C36_WorkshopScratchName ==
    [][WorkshopNamed =>
          last'.path = Some(DownloadPath(uuid', ClaimedWorkshopName(Unwrap(last'.url))))]_vars

\* what holds: the name is the text between the last '/' of the whole URL
\* and the first '?' after it, empty or not, behind the fresh id
WorkshopScratchNameAfterLastSlash ==
    [][WorkshopNamed =>
          /\ last'.path = Some(DownloadPath(uuid', Split(LastSegment(Unwrap(last'.url)), "?")[1]))
          /\ uuid' = uuid + 1
          /\ Unwrap(last'.path) # DownloadPath(uuid', <<"workshop_download">>)]_vars

\* an install call has returned in which registry.add_map failed
InsertFailedInstall == last = NoCall /\ last'.op \in InstallOps /\ last'.inserted = "err"

\* C37: when add_map fails at the registration step of an install, the file
\* the install copied into the add-ons directory is gone when the call
\* returns, the call returns the insert error, and the registry holds no
\* entry of the install.
C37_InsertFailureRemovesFile ==
    [][InsertFailedInstall =>
          /\ ~last'.ok
          /\ last'.step = "add_map"
          /\ last'.placed # {}
          /\ \A path \in last'.placed : ~IsFile(addons', path)
          /\ registry' = registry
          /\ \A id \in uuid + 1..uuid' : id \notin DOMAIN registry']_vars

\* an install of a ZIP has returned the insert error; the file it had copied
\* is not in the add-ons directory
C37_Witness ==
    /\ last.op \in InstallOps
    /\ last.inserted = "err"
    /\ ~last.ok
    /\ last.placed = {T_m_vpk}
    /\ ~IsFile(addons, T_m_vpk)

\* the steps of one install in the order of the code, from the download to
\* the removal of the scratch files
InstallSteps ==
    <<"download", "type", "zip_precheck", "extract", "metadata", "name",
      "copy", "hash", "insert", "cleanup">>

StepRank(step) == CHOOSE i \in DOMAIN InstallSteps : InstallSteps[i] = step

\* the steps of the trace that belong to the chain are in the chain's order,
\* each at most once
StepsInOrder(trace) ==
    LET chain == SelectSeq(trace, LAMBDA s : \E i \in DOMAIN InstallSteps : InstallSteps[i] = s)
    IN \A i, j \in DOMAIN chain : i < j => StepRank(chain[i]) < StepRank(chain[j])

\* the step at position i of the trace comes after the given step
ComesAfter(trace, i, step) == \E j \in 1..(i - 1) : trace[j] = step

\* the steps that remove the downloaded archive or the scratch directory
ScratchRemovals == {"cleanup", "remove_scratch"}

\* an install has gone through some of its steps and returned
InstallStepped == last.trace # <<>>

\* C38 as stated: the steps of an install occur in the order download, type
\* detection, ZIP pre-check and extraction, metadata read, name
\* sanitization, copy, hash, registry insert, scratch cleanup; the insert
\* never precedes the copy, and neither the downloaded archive nor the
\* scratch directory is removed before the insert has succeeded.
C38_InstallStepsInOrder ==
    InstallStepped =>
        /\ StepsInOrder(last.trace)
        /\ \A i \in DOMAIN last.trace :
              /\ last.trace[i] = "insert" => ComesAfter(last.trace, i, "copy")
              /\ last.trace[i] \in ScratchRemovals =>
                    /\ ComesAfter(last.trace, i, "insert")
                    /\ last.inserted = "ok"

\* C38, what holds: the steps occur in that order and the insert never
\* precedes the copy; the downloaded archive and the scratch directory are
\* removed only after the insert has succeeded, except that the extraction
\* directory is removed, with no insert at all, when the extraction failed or
\* produced no VPK file; after a failed insert only the placed file is
\* removed.
C38_InstallStepsInOrderExceptFailedExtraction ==
    InstallStepped =>
        /\ StepsInOrder(last.trace)
        /\ \A i \in DOMAIN last.trace :
              /\ last.trace[i] = "insert" => ComesAfter(last.trace, i, "copy")
              /\ last.trace[i] = "cleanup" =>
                    /\ ComesAfter(last.trace, i, "insert")
                    /\ last.inserted = "ok"
              /\ last.trace[i] = "remove_scratch" =>
                    /\ i = Len(last.trace)
                    /\ ComesAfter(last.trace, i, "extract")
                    /\ ~last.ok /\ last.step \in {"extract", "no_vpk"}
                    /\ last.inserted = "none"
              /\ last.trace[i] = "remove_placed" =>
                    /\ i = Len(last.trace)
                    /\ ComesAfter(last.trace, i, "insert")
                    /\ last.inserted = "err"

\* a ZIP install went through every step of the chain and succeeded
C38_Witness ==
    /\ last.ok
    /\ last.inserted = "ok"
    /\ last.trace = InstallSteps

\* an extraction that failed or found no VPK file removed its directory
FailedExtractionRemovedScratch ==
    /\ ~last.ok
    /\ last.trace = <<"download", "type", "zip_precheck", "extract", "remove_scratch">>

(***************************************************************************)
(* Installs of the same archive one after another, and uninstalls.         *)
(***************************************************************************)
\* Ids of the calls of a run of repeated installs: a ZIP install draws three,
\* for the download, the extraction directory and the map.
MaxRepeatUuid == 6

\* what is installed again and again: an archive whose entry is m.vpk, and a
\* VPK file
RepeatedRemotes == {[url |-> UrlZip, body |-> ZipA], [url |-> UrlVpk, body |-> VpkA]}

\* the environment of a repeated install: the download succeeds at once, and
\* add_map may fail
RepeatEnvs(remote) ==
    {e \in InstallEnvs(remote, None) :
        e.first_ok = 1 /\ e.pick = 1 /\ e.fault \in {"none", "add_map"}}

\* install_from_url without a name, called again for a file it has installed
InstallAgain(remote, env) ==
    LET out == install_from_url(CallState, remote.url, None, env)
    IN /\ last = NoCall
       /\ out.st.uuid <= MaxRepeatUuid
       /\ Returns("install_from_url", None, None, out)
       /\ UNCHANGED steam_connection

NextRepeat ==
    \/ \E remote \in RepeatedRemotes : \E env \in RepeatEnvs(remote) : InstallAgain(remote, env)
    \/ \E id \in KnownIds : UninstallMap(id)
    \/ TakeResult

\* the install and uninstall handlers called one after another
SpecRepeat == Init /\ [][NextRepeat]_vars

\* C39: after any sequence of installs and uninstalls, successful or failed,
\* run one after another with no manual change to the add-ons directory,
\* every registry entry has its file in the add-ons directory at its
\* installed_path; in particular an uninstall never removes the file that
\* another registry entry references.
C39_RegisteredFilesPresent ==
    \A e \in list_maps(registry) : IsFile(addons, e.installed_path)

\* uninstall_map has removed the file of its entry, and another registry
\* entry has the same installed_path
UninstallOrphanedEntry ==
    /\ last.op = "uninstall_map"
    /\ last.ok
    /\ \E e \in list_maps(registry) :
          /\ e.installed_path = Unwrap(last.entry).installed_path
          /\ ~IsFile(addons, e.installed_path)

\* the registry entries for the map an install update names: those with its
\* workshop id, or else those under its sanitized name
EntriesFor(reg, update) ==
    LET map_entry == Unwrap(update.map_entry)
    IN IF IsSome(map_entry.workshop_id)
       THEN {m \in list_maps(reg) : m.workshop_id = map_entry.workshop_id}
       ELSE {m \in list_maps(reg) : m.name = sanitize_map_name(map_entry.name).v}

\* the sync task applies an install update that the cycle before applied
\* with success, the one entry of that application being in the registry
Reapplied ==
    /\ sync.pc = "apply"
    /\ ~PullDone(sync.updates)
    /\ Head(sync.updates) \in sync.before
    /\ Cardinality(EntriesFor(registry, Head(sync.updates))) = 1
    /\ Len(sync'.calls) = Len(sync.calls) + 1

\* C40: when the backend delivers the same install update, by workshop_id or
\* by source_url and name, in two successive cycles and the first application
\* succeeded, the second application adds no registry entry, and the
\* registry still holds exactly one entry for that map.
C40_SecondApplicationAddsNothing ==
    [][Reapplied =>
          /\ DOMAIN registry' = DOMAIN registry
          /\ Cardinality(EntriesFor(registry', Head(sync.updates))) = 1]_vars

\* what holds: an update by source_url and name applied again is rejected
\* for its name and adds nothing
UrlUpdateReappliedAddsNothing ==
    [][Reapplied /\ ~WantsWorkshop(Unwrap(Head(sync.updates).map_entry)) =>
          /\ ~sync'.calls[Len(sync'.calls)].ok
          /\ registry' = registry
          /\ addons' = addons]_vars

\* a URL update was applied again in the cycle after its success
UrlUpdateReapplied ==
    /\ sync.before # {}
    /\ sync.calls # <<>>
    /\ sync.calls[1].update \in sync.before
    /\ sync.calls[1].fn = "install_from_url"
====
